---- MODULE Spec2Model ----
(***************************************************************************)
(* Model of the ESP32 roller-blind firmware: the IR command dispatcher of  *)
(* loop(), the timed-constant motion generator rotateForTime(), the        *)
(* calibration (set mode) state machine and the EEPROM configuration       *)
(* store.  Two sketches are modelled: skech_smart_roller_blind (Spec) and  *)
(* sketch_sep7a (SpecSep7a); SpecSetup is the power-up of either, from the *)
(* global initializers through setup().  SpecKeys and SpecMoves run        *)
(* skech_smart_roller_blind with fewer keys (SpecKeys for one press more,  *)
(* SpecMoves with its timed moves left to run to their end), and           *)
(* SpecSmooth runs smoothRotate of sketch_sep7a one step at a time.        *)
(*                                                                         *)
(* Time.  The program reads millis() only in differences                   *)
(* (millis() - lastIRTime, millis() - lastShutdownTime,                    *)
(* millis() - timingStart, millis() - startTime).  The model keeps each    *)
(* difference as a variable in milliseconds; it grows wherever the code    *)
(* calls delay() or delayMicroseconds() and is set to 0 where the code     *)
(* stores millis().  A difference stops growing at the first value beyond  *)
(* every threshold the code compares it with.                              *)
(***************************************************************************)
EXTENDS Integers, Sequences, FiniteSets, TLC

VARIABLES
  sketch,              \* which of the two sketches runs
  CURTAIN_TIME,        \* int CURTAIN_TIME
  isNormalDirection,   \* bool isNormalDirection
  motorRunning,        \* bool motorRunning
  stopRequested,       \* bool stopRequested
  isFullyRolledUp,     \* bool isFullyRolledUp
  isFullyRolledDown,   \* bool isFullyRolledDown
  setMode,             \* bool setMode
  timingInProgress,    \* bool timingInProgress
  timingElapsed,       \* millis() - timingStart (0 while no timing is in progress)
  shutdownCount,       \* int shutdownCount
  sinceShutdown,       \* millis() - lastShutdownTime
  lastIRCommand,       \* uint32_t lastIRCommand
  sinceLastIR,         \* millis() - lastIRTime
  eeprom,              \* EEPROM bytes 0..4: duration (4 bytes) and direction (1 byte)
  enablePin,           \* level of ENABLE_PIN ("LOW" = driver active)
  dirPin,              \* level of DIR_PIN ("HIGH" = clockwise)
  loopStepCount,       \* loop()'s static int stepCount, modulo 500
  irPending,           \* the decoder: the frame decode() reports until resume()
  pc,                  \* "loop" (between two iterations of loop()), "rotate"
                       \* (in rotateForTime) or "smooth" (in smoothRotate)
  caller,              \* the command whose handler is running a timed move
  rStepCount,          \* the motion generator's local step counter
  rDuration,           \* rotateForTime's duration parameter (smoothRotate's steps)
  calRuns,             \* stepping stretches of the current calibration session
  presses,             \* frames decoded by loop() since power-up
  dispatched,          \* whether the last decoding iteration of loop() called
                       \* handleIRCommand
  seen,                \* the frame that iteration decoded and what it found
                       \* (stopGap: millis() - lastShutdownTime at a stop frame)
  recv,                \* the frame loop() decoded last
  sinceRecv,           \* time since it was decoded
  stopAvailAt,         \* rStepCount when a valid stop became pending in this move
                       \* (-1: none did)
  moveLog              \* what the timed move that just returned did

vars == <<sketch, CURTAIN_TIME, isNormalDirection, motorRunning, stopRequested,
          isFullyRolledUp, isFullyRolledDown, setMode, timingInProgress,
          timingElapsed, shutdownCount, sinceShutdown, lastIRCommand,
          sinceLastIR, eeprom, enablePin, dirPin, loopStepCount, irPending,
          pc, caller, rStepCount, rDuration, calRuns, presses, dispatched,
          seen, recv, sinceRecv, stopAvailAt, moveLog>>

(***************************************************************************)
(* Program constants (config.h and the sketch).                            *)
(***************************************************************************)
IR_ADDRESS == 48896
IR_KEY_UP == 1
IR_KEY_DOWN == 9
IR_KEY_LEFT == 4
IR_KEY_RIGHT == 6
IR_KEY_SHUTDOWN == 5
IR_KEY_SET == 14
IR_KEY_DIRECTION == 26
DEFAULT_CURTAIN_TIME == 5000
SIDE_KEY_TIME == 1000
IR_DEBOUNCE_TIME == 200
SET_MODE_DEBOUNCE_TIME == 1000
SHUTDOWN_REPEAT_WINDOW == 2000
SHUTDOWN_REPEAT_COUNT == 3
MAX_CURTAIN_TIME == 60000
LOOP_DELAY == 50
STOP_MOTOR_DELAY == 100
ROTATE_POLL_STEPS == 100
SET_MODE_POLL_STEPS == 500
speed == 600
\* 0xFFFFFFFF, the all-bits-set command, as the 32-bit pattern read as signed
INVALID_COMMAND == -1

(***************************************************************************)
(* Bounds of the model.                                                    *)
(***************************************************************************)
\* longest calibration session, in milliseconds
MaxCalibration == 62000
\* stepping stretches (runs between two decoder events) per calibration session
MaxCalRuns == 2
\* poll intervals of the long stepping stretch
LongRun == 72
LongRunSep7a == 36
\* decoder polls of a timed move before which a frame may arrive
MaxStopPolls == 2
\* frames loop() decodes in one run
MaxPresses == 3

None == [command |-> 0, address |-> 0, protocol |-> 0, none |-> TRUE]
Frame(c, a, p) == [command |-> c, address |-> a, protocol |-> p, none |-> FALSE]
NoLog == [steps |-> -1, afterStop |-> -1, duration |-> -1, clockwise |-> FALSE,
          stopped |-> FALSE, arrived |-> None, pending |-> FALSE, age |-> -1]

Min(a, b) == IF a < b THEN a ELSE b

(***************************************************************************)
(* The program state as one record, so that the handlers compose the way   *)
(* the code calls them.                                                    *)
(***************************************************************************)
\* nothing decoded yet
NoSeen ==
  [frame |-> None, setMode |-> FALSE, differs |-> FALSE, age |-> 0,
   repeat |-> FALSE, stopGap |-> 0, sinceMove |-> -1]

Cur ==
  [sketch |-> sketch, CURTAIN_TIME |-> CURTAIN_TIME, isNormalDirection |-> isNormalDirection,
   motorRunning |-> motorRunning, stopRequested |-> stopRequested,
   isFullyRolledUp |-> isFullyRolledUp, isFullyRolledDown |-> isFullyRolledDown,
   setMode |-> setMode, timingInProgress |-> timingInProgress,
   timingElapsed |-> timingElapsed, shutdownCount |-> shutdownCount,
   sinceShutdown |-> sinceShutdown, lastIRCommand |-> lastIRCommand,
   sinceLastIR |-> sinceLastIR, eeprom |-> eeprom, enablePin |-> enablePin,
   dirPin |-> dirPin, loopStepCount |-> loopStepCount, irPending |-> irPending,
   pc |-> pc, caller |-> caller, rStepCount |-> rStepCount,
   rDuration |-> rDuration, calRuns |-> calRuns, presses |-> presses,
   dispatched |-> dispatched, seen |-> seen, recv |-> recv,
   sinceRecv |-> sinceRecv, stopAvailAt |-> stopAvailAt,
   moveLog |-> moveLog, sinceDecode |-> 0]

\* the first ages beyond every threshold they are compared with: the debounce
\* age is compared with 200 ms in normal mode and with 1000 ms in set mode
\* (which is entered with the age at 0); the stop-repeat age with 2000 ms
\* (kept one value further, so that a gap of exactly 2000 ms differs from a
\* longer one), and with shutdownCount = 0 the next press makes the count 1
\* whatever the age
IRAgeCap(s) ==
  IF s.setMode THEN SET_MODE_DEBOUNCE_TIME + 1 ELSE IR_DEBOUNCE_TIME + 1

ShutdownAgeCap(s) ==
  IF s.shutdownCount = 0 THEN 0 ELSE SHUTDOWN_REPEAT_WINDOW + 1

RecvAgeCap == IR_DEBOUNCE_TIME

Becomes(s) ==
  /\ sketch' = s.sketch
  /\ CURTAIN_TIME' = s.CURTAIN_TIME
  /\ isNormalDirection' = s.isNormalDirection
  /\ motorRunning' = s.motorRunning
  /\ stopRequested' = s.stopRequested
  /\ isFullyRolledUp' = s.isFullyRolledUp
  /\ isFullyRolledDown' = s.isFullyRolledDown
  /\ setMode' = s.setMode
  /\ timingInProgress' = s.timingInProgress
  /\ timingElapsed' = s.timingElapsed
  /\ shutdownCount' = s.shutdownCount
  /\ sinceShutdown' = Min(s.sinceShutdown, ShutdownAgeCap(s))
  /\ lastIRCommand' = s.lastIRCommand
  /\ sinceLastIR' = Min(s.sinceLastIR, IRAgeCap(s))
  /\ eeprom' = s.eeprom
  /\ enablePin' = s.enablePin
  /\ dirPin' = s.dirPin
  /\ loopStepCount' = s.loopStepCount
  /\ irPending' = s.irPending
  /\ pc' = s.pc
  /\ caller' = s.caller
  /\ rStepCount' = s.rStepCount
  /\ rDuration' = s.rDuration
  /\ calRuns' = s.calRuns
  /\ presses' = s.presses
  /\ dispatched' = s.dispatched
  /\ seen' = s.seen
  /\ recv' = IF s.sinceRecv >= RecvAgeCap THEN None ELSE s.recv
  /\ sinceRecv' = Min(s.sinceRecv, RecvAgeCap)
  /\ stopAvailAt' = s.stopAvailAt
  /\ moveLog' = s.moveLog

(***************************************************************************)
(* Clock.                                                                  *)
(***************************************************************************)
\* unsigned long stepDelay = 1000000 / speed (microseconds per step)
stepDelay == 1000000 \div speed

\* milliseconds that `steps` step pulses take
ElapsedMs(steps) == (steps * stepDelay) \div 1000

\* the largest age the model keeps while a handler runs
AgeMax == SHUTDOWN_REPEAT_WINDOW + 1

\* dt milliseconds pass (delay(), delayMicroseconds())
Pass(s, dt) ==
  [s EXCEPT !.sinceLastIR = Min(@ + dt, AgeMax),
            !.sinceDecode = Min(@ + dt, AgeMax),
            !.sinceShutdown = Min(@ + dt, AgeMax),
            !.sinceRecv = Min(@ + dt, AgeMax),
            !.moveLog.age = IF @ >= 0 THEN Min(@ + dt, IR_DEBOUNCE_TIME + 1) ELSE @,
            !.timingElapsed = IF s.timingInProgress THEN @ + dt ELSE @]

(***************************************************************************)
(* EEPROM: put/get of a 4-byte int (little endian, two's complement) and   *)
(* of a 1-byte bool.                                                       *)
(***************************************************************************)
\* the four bytes of v, most significant first
IntBytesBigEndian(v) ==
  LET w == IF v >= 0 THEN v ELSE (v + 2147483647) + 1
  IN  [i \in 0..3 |->
         IF i = 0 THEN (w \div 16777216) + (IF v < 0 THEN 128 ELSE 0)
                  ELSE (w \div (256 ^ (3 - i))) % 256]

IntBytes(v) ==
  LET w == IF v >= 0 THEN v ELSE (v + 2147483647) + 1
  IN  [i \in 0..3 |->
         IF i = 3 THEN (w \div 16777216) + (IF v < 0 THEN 128 ELSE 0)
                  ELSE (w \div (256 ^ i)) % 256]

BytesInt(b) ==
  LET low == b[0] + 256 * b[1] + 65536 * b[2]
  IN  IF b[3] >= 128 THEN (((b[3] - 128) * 16777216 + low) - 2147483647) - 1
                     ELSE b[3] * 16777216 + low

EepromPutInt(e, addr, v) ==
  [i \in DOMAIN e |-> IF i \in addr..(addr + 3) THEN IntBytes(v)[i - addr] ELSE e[i]]

EepromGetInt(e, addr) == BytesInt([i \in 0..3 |-> e[addr + i]])

EepromPutBool(e, addr, b) == [e EXCEPT ![addr] = IF b THEN 1 ELSE 0]

\* EEPROM.get copies the byte into a bool object: 0 reads as false and 1 as
\* true; any other byte (blank flash holds 255) is not a value of the type,
\* and the program may then read either truth value, u
EepromGetBool(e, addr, u) ==
  IF e[addr] = 0 THEN FALSE ELSE IF e[addr] = 1 THEN TRUE ELSE u

saveCurtainTime(s) == [s EXCEPT !.eeprom = EepromPutInt(@, 0, s.CURTAIN_TIME)]

\* loadCurtainTime whose range check admits 60000 itself
loadCurtainTimeInclusive(s) ==
  LET savedTime == EepromGetInt(s.eeprom, 0)
  IN  [s EXCEPT !.CURTAIN_TIME =
         IF savedTime > 0 /\ savedTime <= MAX_CURTAIN_TIME THEN savedTime
         ELSE DEFAULT_CURTAIN_TIME]

loadCurtainTime(s) ==
  LET savedTime == EepromGetInt(s.eeprom, 0)
  IN  [s EXCEPT !.CURTAIN_TIME =
         IF savedTime > 0 /\ savedTime < MAX_CURTAIN_TIME THEN savedTime
         ELSE DEFAULT_CURTAIN_TIME]

\* clearCurtainTime that writes the sentinel and leaves CURTAIN_TIME as it is
clearCurtainTimeKeepsMemory(s) ==
  [s EXCEPT !.eeprom = EepromPutInt(@, 0, 0)]

clearCurtainTime(s) ==
  [s EXCEPT !.eeprom = EepromPutInt(@, 0, 0), !.CURTAIN_TIME = DEFAULT_CURTAIN_TIME]

saveDirectionSetting(s) ==
  [s EXCEPT !.eeprom = EepromPutBool(@, 4, s.isNormalDirection)]

loadDirectionSetting(s, u) ==
  [s EXCEPT !.isNormalDirection = EepromGetBool(s.eeprom, 4, u)]

handleDirectionKey(s) ==
  saveDirectionSetting(
    [s EXCEPT !.isNormalDirection = IF @ = TRUE THEN FALSE ELSE TRUE])

(***************************************************************************)
(* Direction resolver: the value each handler passes as `clockwise`        *)
(* (TRUE = DIR_PIN HIGH = CW).                                             *)
(***************************************************************************)
rollUpDirection(normal) == IF normal = TRUE THEN TRUE ELSE FALSE

layDownDirection(normal) == IF normal = TRUE THEN FALSE ELSE TRUE

\* a left key that turns clockwise under either orientation
leftDirectionFixed(normal) == TRUE

leftDirection(normal) == IF normal = TRUE THEN TRUE ELSE FALSE

rightDirection(normal) == IF normal = TRUE THEN FALSE ELSE TRUE

setDirection(normal) == IF normal = TRUE THEN FALSE ELSE TRUE

Level(clockwise) == IF clockwise THEN "HIGH" ELSE "LOW"

(***************************************************************************)
(* The decoder (IrReceiver): decode() reports the pending frame, which     *)
(* stays pending, and blocks reception, until resume().                    *)
(***************************************************************************)
resume(s) == [s EXCEPT !.irPending = None]

\* command == IR_KEY_SHUTDOWN && address != 0x0 && protocol != 0
ValidStop(f) ==
  ~f.none /\ f.command = IR_KEY_SHUTDOWN /\ f.address # 0 /\ f.protocol # 0

(***************************************************************************)
(* skech_smart_roller_blind: handlers.                                     *)
(***************************************************************************)
stopMotor(s) ==
  Pass([s EXCEPT !.enablePin = "HIGH", !.motorRunning = FALSE], STOP_MOTOR_DELAY)

\* handleShutdownKey whose set-mode branch leaves ENABLE_PIN as it is
handleShutdownKeyKeepsEnable(s) ==
  IF s.setMode
  THEN [s EXCEPT !.setMode = FALSE, !.timingInProgress = FALSE,
                 !.timingElapsed = 0, !.motorRunning = FALSE, !.calRuns = 0]
  ELSE stopMotor([s EXCEPT !.shutdownCount = 1, !.sinceShutdown = 0,
                           !.stopRequested = TRUE])

\* handleShutdownKey whose repeat window includes a gap of exactly 2000 ms
handleShutdownKeyInclusive(s) ==
  IF s.setMode
  THEN [s EXCEPT !.enablePin = "HIGH", !.setMode = FALSE,
                 !.timingInProgress = FALSE, !.timingElapsed = 0,
                 !.motorRunning = FALSE, !.calRuns = 0]
  ELSE LET count == IF s.sinceShutdown <= SHUTDOWN_REPEAT_WINDOW
                    THEN s.shutdownCount + 1 ELSE 1
           s1 == [s EXCEPT !.shutdownCount = count, !.sinceShutdown = 0]
       IN  IF count >= SHUTDOWN_REPEAT_COUNT
           THEN [clearCurtainTime(s1) EXCEPT !.shutdownCount = 0]
           ELSE stopMotor([s1 EXCEPT !.stopRequested = TRUE])

handleShutdownKey(s) ==
  IF s.setMode
  THEN [s EXCEPT !.enablePin = "HIGH", !.setMode = FALSE,
                 !.timingInProgress = FALSE, !.timingElapsed = 0,
                 !.motorRunning = FALSE, !.calRuns = 0]
  ELSE LET count == IF s.sinceShutdown < SHUTDOWN_REPEAT_WINDOW
                    THEN s.shutdownCount + 1 ELSE 1
           s1 == [s EXCEPT !.shutdownCount = count, !.sinceShutdown = 0]
       IN  IF count >= SHUTDOWN_REPEAT_COUNT
           THEN [clearCurtainTime(s1) EXCEPT !.shutdownCount = 0]
           ELSE stopMotor([s1 EXCEPT !.stopRequested = TRUE])

\* handleSetKey whose exit sets isFullyRolledDown and leaves isFullyRolledUp
handleSetKeyKeepsUp(s) ==
  IF ~s.setMode
  THEN [s EXCEPT !.setMode = TRUE, !.timingInProgress = TRUE,
                 !.timingElapsed = 0, !.calRuns = 0,
                 !.enablePin = "LOW",
                 !.dirPin = Level(setDirection(s.isNormalDirection)),
                 !.motorRunning = TRUE]
  ELSE LET duration == s.timingElapsed
       IN  [saveCurtainTime([s EXCEPT !.enablePin = "HIGH",
                                      !.motorRunning = FALSE,
                                      !.timingInProgress = FALSE,
                                      !.CURTAIN_TIME = duration])
              EXCEPT !.isFullyRolledDown = TRUE,
                     !.setMode = FALSE, !.timingElapsed = 0, !.calRuns = 0]

handleSetKey(s) ==
  IF ~s.setMode
  THEN [s EXCEPT !.setMode = TRUE, !.timingInProgress = TRUE,
                 !.timingElapsed = 0, !.calRuns = 0,
                 !.enablePin = "LOW",
                 !.dirPin = Level(setDirection(s.isNormalDirection)),
                 !.motorRunning = TRUE]
  ELSE LET duration == s.timingElapsed
       IN  [saveCurtainTime([s EXCEPT !.enablePin = "HIGH",
                                      !.motorRunning = FALSE,
                                      !.timingInProgress = FALSE,
                                      !.CURTAIN_TIME = duration])
              EXCEPT !.isFullyRolledDown = TRUE, !.isFullyRolledUp = FALSE,
                     !.setMode = FALSE, !.timingElapsed = 0, !.calRuns = 0]

\* rotateForTime up to its while loop: the driver is enabled, the direction set
rotateForTime(s, duration, clockwise) ==
  [s EXCEPT !.enablePin = "LOW", !.dirPin = Level(clockwise),
            !.rStepCount = 0, !.rDuration = duration, !.stopAvailAt = -1,
            !.pc = "rotate"]

\* rollUpCurtain up to the return of rotateForTime
rollUpCurtain(s) ==
  rotateForTime([s EXCEPT !.motorRunning = TRUE, !.stopRequested = FALSE],
                s.CURTAIN_TIME, rollUpDirection(s.isNormalDirection))

\* a rollUpCurtain that leaves motorRunning set when it returns
rollUpCurtainEndKeepsRunning(s) ==
  [s EXCEPT !.isFullyRolledUp = IF ~s.stopRequested THEN TRUE ELSE @,
            !.isFullyRolledDown = IF ~s.stopRequested THEN FALSE ELSE @,
            !.stopRequested = FALSE]

\* rollUpCurtain after rotateForTime has returned
rollUpCurtainEnd(s) ==
  [s EXCEPT !.motorRunning = FALSE,
            !.isFullyRolledUp = IF ~s.stopRequested THEN TRUE ELSE @,
            !.isFullyRolledDown = IF ~s.stopRequested THEN FALSE ELSE @,
            !.stopRequested = FALSE]

layDownCurtain(s) ==
  rotateForTime([s EXCEPT !.motorRunning = TRUE, !.stopRequested = FALSE],
                s.CURTAIN_TIME, layDownDirection(s.isNormalDirection))

\* layDownCurtain whose end leaves the position hints as they are
layDownCurtainEndKeepsHints(s) ==
  [s EXCEPT !.motorRunning = FALSE, !.stopRequested = FALSE]

layDownCurtainEnd(s) ==
  [s EXCEPT !.motorRunning = FALSE,
            !.isFullyRolledDown = IF ~s.stopRequested THEN TRUE ELSE @,
            !.isFullyRolledUp = IF ~s.stopRequested THEN FALSE ELSE @,
            !.stopRequested = FALSE]

\* a switch whose roll cases do not look at the position hints
handleIRCommandNoEndStop(s, command) ==
  LET h == [s EXCEPT !.caller = command]
      clear == [h EXCEPT !.isFullyRolledUp = FALSE, !.isFullyRolledDown = FALSE]
  IN  CASE command = IR_KEY_UP -> rollUpCurtain(clear)
        [] command = IR_KEY_DOWN -> layDownCurtain(clear)
        [] command = IR_KEY_LEFT ->
             rotateForTime(clear, SIDE_KEY_TIME, leftDirection(s.isNormalDirection))
        [] command = IR_KEY_RIGHT ->
             rotateForTime(clear, SIDE_KEY_TIME, rightDirection(s.isNormalDirection))
        [] command = IR_KEY_SET -> handleSetKey(s)
        [] command = IR_KEY_SHUTDOWN -> handleShutdownKey(s)
        [] command = IR_KEY_DIRECTION -> handleDirectionKey(s)
        [] OTHER -> s

\* the switch of handleIRCommand; a timed move leaves pc = "rotate"
handleIRCommand(s, command) ==
  LET h == [s EXCEPT !.caller = command]
      clear == [h EXCEPT !.isFullyRolledUp = FALSE, !.isFullyRolledDown = FALSE]
  IN  CASE command = IR_KEY_UP ->
             IF s.isFullyRolledUp THEN s ELSE rollUpCurtain(clear)
        [] command = IR_KEY_DOWN ->
             IF s.isFullyRolledDown THEN s ELSE layDownCurtain(clear)
        [] command = IR_KEY_LEFT ->
             rotateForTime(clear, SIDE_KEY_TIME, leftDirection(s.isNormalDirection))
        [] command = IR_KEY_RIGHT ->
             rotateForTime(clear, SIDE_KEY_TIME, rightDirection(s.isNormalDirection))
        [] command = IR_KEY_SET -> handleSetKey(s)
        [] command = IR_KEY_SHUTDOWN -> handleShutdownKey(s)
        [] command = IR_KEY_DIRECTION -> handleDirectionKey(s)
        [] OTHER -> s

(***************************************************************************)
(* skech_smart_roller_blind: loop().                                       *)
(***************************************************************************)
\* the end of loop(): the idle delay and the safety disable
loopTail(s) ==
  LET s1 == IF ~s.setMode \/ ~s.timingInProgress THEN Pass(s, LOOP_DELAY) ELSE s
  IN  [s1 EXCEPT !.enablePin = IF ~s1.setMode /\ ~s1.motorRunning THEN "HIGH" ELSE @,
                 !.pc = "loop"]

\* a 500-step poll whose stop branch keeps the elapsed time as the duration
setModePollSaves(s) ==
  IF (s.loopStepCount % SET_MODE_POLL_STEPS = 0) /\ ~s.irPending.none
  THEN IF ValidStop(s.irPending)
       THEN resume(saveCurtainTime(
                     [s EXCEPT !.enablePin = "HIGH", !.setMode = FALSE,
                               !.timingInProgress = FALSE,
                               !.CURTAIN_TIME = s.timingElapsed,
                               !.timingElapsed = 0,
                               !.motorRunning = FALSE, !.loopStepCount = 0,
                               !.calRuns = 0, !.pc = "loop"]))
       ELSE loopTail(resume(s))
  ELSE loopTail(s)

\* the 500-step decoder poll of the set-mode stepping branch, then the end of
\* loop()
setModePoll(s) ==
  IF (s.loopStepCount % SET_MODE_POLL_STEPS = 0) /\ ~s.irPending.none
  THEN IF ValidStop(s.irPending)
       THEN resume([s EXCEPT !.enablePin = "HIGH", !.setMode = FALSE,
                             !.timingInProgress = FALSE, !.timingElapsed = 0,
                             !.motorRunning = FALSE, !.loopStepCount = 0,
                             !.calRuns = 0, !.pc = "loop"])
       ELSE loopTail(resume(s))
  ELSE loopTail(s)

\* the set-mode stepping branch: n iterations of loop() that each emit one
\* step pulse and decode nothing; the last one's 500-step poll sees frame f
setModeSteps(s, n, f) ==
  LET s1 == Pass([s EXCEPT !.enablePin = "LOW",
                           !.loopStepCount = (@ + n) % SET_MODE_POLL_STEPS],
                 ElapsedMs(n))
  IN  setModePoll(IF s1.irPending.none
                  THEN [s1 EXCEPT !.irPending = f,
                                  !.moveLog = [@ EXCEPT !.arrived = f]]
                  ELSE s1)

\* loop() after its decode block
loopRest(s) ==
  IF s.setMode /\ s.timingInProgress /\ s.motorRunning
  THEN setModeSteps(s, 1, None)
  ELSE loopTail(s)

\* a loop() that does not resume the decoder after the handler has returned
afterDispatchKeepsPending(s, command) ==
  loopRest([s EXCEPT !.lastIRCommand = command, !.sinceLastIR = s.sinceDecode])

\* loop() after handleIRCommand has returned in normal mode
afterDispatch(s, command) ==
  loopRest(resume([s EXCEPT !.lastIRCommand = command,
                            !.sinceLastIR = s.sinceDecode]))

\* a normal-mode debounce test that accepts at exactly 200 ms
AcceptNormalInclusive(s, command) ==
  command # s.lastIRCommand \/ s.sinceLastIR >= IR_DEBOUNCE_TIME

\* the debounce tests of loop()
AcceptNormal(s, command) ==
  command # s.lastIRCommand \/ s.sinceLastIR > IR_DEBOUNCE_TIME

AcceptSetMode(s, command) ==
  command # s.lastIRCommand \/ s.sinceLastIR > SET_MODE_DEBOUNCE_TIME

dispatch(s, command) ==
  LET h == handleIRCommand([s EXCEPT !.dispatched = TRUE], command)
  IN  IF h.pc = "rotate" THEN h ELSE afterDispatch(h, command)

\* a loop() whose set-mode branch lets the direction key through as well
loopDecodeWithDirection(s0, f) ==
  LET s == [s0 EXCEPT !.dispatched = FALSE, !.sinceDecode = 0, !.presses = @ + 1,
                      !.recv = f, !.sinceRecv = 0, !.moveLog = NoLog,
                      !.seen = [NoSeen EXCEPT !.frame = f, !.setMode = s0.setMode]]
  IN  IF s.setMode
      THEN IF f.command \in {IR_KEY_SET, IR_KEY_SHUTDOWN, IR_KEY_DIRECTION}
           THEN resume([handleIRCommand([s EXCEPT !.dispatched = TRUE], f.command)
                          EXCEPT !.lastIRCommand = f.command, !.sinceLastIR = 0])
           ELSE resume(s)
      ELSE dispatch(s, f.command)

\* one iteration of loop() whose decode() reports frame f
loopDecode(s0, f) ==
  LET s == [s0 EXCEPT
              !.dispatched = FALSE, !.sinceDecode = 0, !.presses = @ + 1,
              !.recv = f, !.sinceRecv = 0, !.moveLog = NoLog,
              !.seen = [frame |-> f, setMode |-> s0.setMode,
                        differs |-> f.command # s0.lastIRCommand,
                        age |-> IF s0.sinceLastIR > SET_MODE_DEBOUNCE_TIME THEN 2
                                ELSE IF s0.sinceLastIR > IR_DEBOUNCE_TIME THEN 1
                                ELSE 0,
                        repeat |-> /\ ~s0.recv.none
                                   /\ f.command = s0.recv.command
                                   /\ s0.sinceRecv < IR_DEBOUNCE_TIME,
                        stopGap |-> IF f.command = IR_KEY_SHUTDOWN
                                    THEN s0.sinceShutdown ELSE 0,
                        sinceMove |-> IF f.command = IR_KEY_SHUTDOWN
                                      THEN s0.moveLog.age ELSE -1]]
  IN  IF f.address # IR_ADDRESS THEN resume(s)
      ELSE IF s.setMode
      THEN IF /\ f.command \in {IR_KEY_SET, IR_KEY_SHUTDOWN}
              /\ f.command # INVALID_COMMAND
              /\ f.address # 0 /\ f.protocol # 0
              /\ AcceptSetMode(s, f.command)
           THEN resume([handleIRCommand([s EXCEPT !.dispatched = TRUE], f.command)
                          EXCEPT !.lastIRCommand = f.command, !.sinceLastIR = 0])
           ELSE resume(s)
      ELSE IF f.command # INVALID_COMMAND
           THEN IF /\ s.motorRunning /\ f.command = IR_KEY_SHUTDOWN
                   /\ f.address # 0 /\ f.protocol # 0
                THEN dispatch(s, f.command)
                ELSE IF AcceptNormal(s, f.command)
                THEN dispatch(s, f.command)
                ELSE loopRest(resume(s))
           ELSE loopRest(resume(s))

\* w iterations of loop() in which decode() reports nothing: each takes the
\* stepping branch in set mode, and otherwise only the delay and the safety
\* disable at the end of loop()
loopIdle(s, w) ==
  IF w = 0 THEN s
  ELSE IF s.setMode /\ s.timingInProgress /\ s.motorRunning
  THEN setModeSteps(s, w, None)
  ELSE IF ~s.setMode \/ ~s.timingInProgress
  THEN loopTail(Pass(s, (w - 1) * LOOP_DELAY))
  ELSE loopTail(s)

(***************************************************************************)
(* skech_smart_roller_blind: the while loop of rotateForTime.              *)
(***************************************************************************)
\* step pulses after which millis() - startTime < duration fails
TotalSteps(duration) ==
  IF duration <= 0 THEN 0 ELSE (duration * 1000 + stepDelay - 1) \div stepDelay

\* rotateForTime after its while loop, then its caller, then loop()
rotateReturn(s) ==
  LET log == [steps |-> s.rStepCount,
              afterStop |-> IF s.stopAvailAt >= 0 THEN s.rStepCount - s.stopAvailAt
                            ELSE -1,
              duration |-> s.rDuration, clockwise |-> s.dirPin = "HIGH",
              stopped |-> s.stopRequested, arrived |-> s.moveLog.arrived,
              pending |-> ~s.irPending.none, age |-> 0]
      s1 == [s EXCEPT !.enablePin = "HIGH", !.moveLog = log,
                      !.sinceDecode = Min(ElapsedMs(s.rStepCount), AgeMax)]
      s2 == CASE s.caller = IR_KEY_UP -> rollUpCurtainEnd(s1)
              [] s.caller = IR_KEY_DOWN -> layDownCurtainEnd(s1)
              [] OTHER -> s1
  IN  [afterDispatch(s2, s.caller)
         EXCEPT !.rStepCount = 0, !.rDuration = 0, !.caller = 0, !.stopAvailAt = -1]

\* a while loop that polls the decoder every 200 pulses
ToNextPollSparse(s) ==
  Min(2 * ROTATE_POLL_STEPS - (s.rStepCount % (2 * ROTATE_POLL_STEPS)),
      TotalSteps(s.rDuration) - s.rStepCount)

\* step pulses up to the next decoder poll of the while loop (or to its end)
ToNextPoll(s) ==
  Min(ROTATE_POLL_STEPS - (s.rStepCount % ROTATE_POLL_STEPS),
      TotalSteps(s.rDuration) - s.rStepCount)

\* a while loop that tests only the time: a poll that takes a valid stop
\* from the decoder sets stopRequested and the stepping goes on
rotateStepsDeaf(s, n) ==
  LET total == TotalSteps(s.rDuration)
  IN  IF s.rStepCount >= total THEN rotateReturn(s)
      ELSE
        LET c == s.rStepCount + n
            s1 == Pass([s EXCEPT !.rStepCount = c],
                       ElapsedMs(c) - ElapsedMs(s.rStepCount))
            polled == c % ROTATE_POLL_STEPS = 0 /\ ~s1.irPending.none
            s2 == IF polled
                  THEN resume([s1 EXCEPT !.stopRequested =
                                           @ \/ ValidStop(s1.irPending)])
                  ELSE s1
        IN  IF c >= total THEN rotateReturn(s2) ELSE s2

\* the next n pulses of the while loop, n at most ToNextPoll(s) unless no
\* poll before sees a frame
rotateSteps(s, n) ==
  LET total == TotalSteps(s.rDuration)
  IN  IF s.stopRequested \/ s.rStepCount >= total THEN rotateReturn(s)
      ELSE
        LET c == s.rStepCount + n
            s1 == Pass([s EXCEPT !.rStepCount = c],
                       ElapsedMs(c) - ElapsedMs(s.rStepCount))
            polled == c % ROTATE_POLL_STEPS = 0 /\ ~s1.irPending.none
        IN  IF polled /\ ValidStop(s1.irPending)
            THEN rotateReturn(resume([s1 EXCEPT !.stopRequested = TRUE]))
            ELSE LET s2 == IF polled THEN resume(s1) ELSE s1
                 IN  IF c >= total THEN rotateReturn(s2) ELSE s2

\* a frame reaches the receiver (ignored while a decoded frame awaits resume())
receive(s, f) ==
  IF ~s.irPending.none \/ f.none THEN s
  ELSE [s EXCEPT !.irPending = f,
                 !.moveLog = IF s.pc = "rotate" THEN [@ EXCEPT !.arrived = f] ELSE @,
                 !.stopAvailAt = IF s.pc = "rotate" /\ ValidStop(f) /\ @ < 0
                                 THEN s.rStepCount ELSE @]

\* decoder polls of the while loop before its last pulse
LastPoll(s) == (TotalSteps(s.rDuration) - 1) \div ROTATE_POLL_STEPS

\* the while loop to its end, when frame f reaches the receiver after q more
\* decoder polls (polls that find the decoder empty are taken in one stretch)
RECURSIVE rotateRun(_, _, _)
rotateRun(s, q, f) ==
  IF s.pc # "rotate" THEN s
  ELSE LET s1 == IF q = 0 THEN receive(s, f) ELSE s
           left == TotalSteps(s1.rDuration) - s1.rStepCount
           n == IF ~s1.irPending.none \/ q = 0 THEN ToNextPoll(s1)
                ELSE IF q < 0 THEN left
                ELSE Min(q * ROTATE_POLL_STEPS
                           - (s1.rStepCount % ROTATE_POLL_STEPS), left)
       IN  rotateRun(rotateSteps(s1, n),
                     IF q > 0 /\ s1.irPending.none THEN 0 ELSE q - 1, f)

(***************************************************************************)
(* skech_smart_roller_blind: the state machine.                            *)
(***************************************************************************)
\* frames the decoder may deliver: the seven keys of the configured remote,
\* noise, a frame without protocol and a frame of another remote
IRFrames ==
  {Frame(k, IR_ADDRESS, 1) :
     k \in {IR_KEY_UP, IR_KEY_DOWN, IR_KEY_LEFT, IR_KEY_RIGHT, IR_KEY_SET,
            IR_KEY_SHUTDOWN, IR_KEY_DIRECTION, INVALID_COMMAND}}
  \cup {Frame(IR_KEY_SHUTDOWN, IR_ADDRESS, 0), Frame(IR_KEY_UP, 1, 1)}

\* frames that may arrive while the motor is stepping
MoveFrames ==
  {None, Frame(IR_KEY_SHUTDOWN, IR_ADDRESS, 1), Frame(IR_KEY_SHUTDOWN, IR_ADDRESS, 0),
   Frame(IR_KEY_SHUTDOWN, 1, 1)}
  \cup {Frame(k, IR_ADDRESS, 1) :
          k \in {IR_KEY_UP, IR_KEY_LEFT, IR_KEY_SET, IR_KEY_DIRECTION}}

\* idle iterations of loop() before a frame is decoded: they put the frame on
\* both sides of the 200 ms debounce window and before, at and after the end
\* of the 2000 ms repeat window
Waits == {0, 2, 3, 4, 36, 37, 38}

\* what the EEPROM may hold at power-up: blank flash or a saved duration
InitStoredTimes == {-1, 2000}

\* the direction byte at power-up: a saved setting, or blank flash on a
\* device whose EEPROM was never written
InitStoredDirections == {0, 1, 255}

\* setup()
Init ==
  \E stored \in InitStoredTimes, dir \in InitStoredDirections, u \in BOOLEAN :
    LET e == [EepromPutInt([i \in 0..4 |-> 255], 0, stored) EXCEPT ![4] = dir]
        s == loadDirectionSetting(
               loadCurtainTime(
                 [CURTAIN_TIME |-> DEFAULT_CURTAIN_TIME,
                  isNormalDirection |-> TRUE, eeprom |-> e]),
               u)
    IN  /\ dir = 255 => stored = -1
        /\ sketch = "skech_smart_roller_blind"
        /\ CURTAIN_TIME = s.CURTAIN_TIME
        /\ isNormalDirection = s.isNormalDirection
        /\ eeprom = e
        /\ motorRunning = FALSE /\ stopRequested = FALSE
        /\ isFullyRolledUp = FALSE /\ isFullyRolledDown = FALSE
        /\ setMode = FALSE /\ timingInProgress = FALSE /\ timingElapsed = 0
        /\ shutdownCount = 0 /\ sinceShutdown = 0
        /\ lastIRCommand = 0 /\ sinceLastIR = 0
        /\ enablePin = "HIGH" /\ dirPin = "LOW"
        /\ loopStepCount = 0 /\ irPending = None /\ pc = "loop"
        /\ caller = 0 /\ rStepCount = 0 /\ rDuration = 0 /\ calRuns = 0
        /\ presses = 0 /\ dispatched = FALSE /\ seen = NoSeen
        /\ recv = None /\ sinceRecv = 0
        /\ stopAvailAt = -1 /\ moveLog = NoLog

Start == [Cur EXCEPT !.moveLog = [NoLog EXCEPT !.age = moveLog.age]]

\* iterations of loop() up to and including one whose decode() reports a
\* frame: w iterations with nothing decoded, then the frame f is decoded
Press ==
  /\ sketch = "skech_smart_roller_blind"
  /\ pc = "loop" /\ presses < MaxPresses
  /\ \E w \in Waits, f \in IRFrames :
       /\ setMode => w = 0
       /\ Becomes(loopDecode(receive(loopIdle(Start, w), f), f))

\* iterations of loop() in set mode with nothing decoded, up to the k-th next
\* 500-step poll, which sees frame f
CalRun ==
  /\ sketch = "skech_smart_roller_blind"
  /\ pc = "loop"
  /\ setMode /\ timingInProgress /\ motorRunning
  /\ calRuns < MaxCalRuns
  /\ \E k \in {1, LongRun}, f \in MoveFrames :
       LET n == k * SET_MODE_POLL_STEPS - loopStepCount
       IN  /\ timingElapsed + ElapsedMs(n) <= MaxCalibration
           /\ Becomes(setModeSteps([Start EXCEPT !.dispatched = FALSE,
                                                 !.seen = NoSeen,
                                                 !.calRuns = @ + 1], n, f))

\* rotateForTime's while loop, with frame f arriving after q decoder polls
\* (early in the move, or after the last poll)
RotateRun ==
  /\ sketch = "skech_smart_roller_blind"
  /\ pc = "rotate"
  /\ \E q \in 0..MaxStopPolls \cup {LastPoll(Cur)}, f \in MoveFrames :
       /\ f.none => q = 0
       /\ Becomes(rotateRun(Start, q, f))

Next == Press \/ CalRun \/ RotateRun

Spec == Init /\ [][Next]_vars
(***************************************************************************)
(* sketch_sep7a: constants and handlers.  The key codes other than the     *)
(* stop key, the debounce times and the EEPROM routines are those above.   *)
(***************************************************************************)
IR_KEY_SHUTDOWN_SEP7A == 0
speedSep7a == 300
STEPS_PER_REVOLUTION == 200
MICROSTEPS == 16
TOTAL_STEPS == STEPS_PER_REVOLUTION * MICROSTEPS
maxSpeed == 400
minSpeed == 100
SMOOTH_POLL_STEPS == 100

stepDelaySep7a == 1000000 \div speedSep7a

ElapsedMsSep7a(n) == (n * stepDelaySep7a) \div 1000

\* command == IR_KEY_SHUTDOWN && address != 0x0 && protocol != 0
ValidStopSep7a(f) ==
  ~f.none /\ f.command = IR_KEY_SHUTDOWN_SEP7A /\ f.address # 0 /\ f.protocol # 0

stopMotorSep7a(s) ==
  Pass([s EXCEPT !.enablePin = "HIGH", !.motorRunning = FALSE], STOP_MOTOR_DELAY)

handleShutdownKeySep7a(s) ==
  IF s.setMode
  THEN [s EXCEPT !.enablePin = "HIGH", !.setMode = FALSE,
                 !.timingInProgress = FALSE, !.timingElapsed = 0,
                 !.motorRunning = FALSE, !.calRuns = 0]
  ELSE LET count == IF s.sinceShutdown < SHUTDOWN_REPEAT_WINDOW
                    THEN s.shutdownCount + 1 ELSE 1
           s1 == [s EXCEPT !.shutdownCount = count, !.sinceShutdown = 0]
       IN  IF count >= SHUTDOWN_REPEAT_COUNT
           THEN [clearCurtainTime(s1) EXCEPT !.shutdownCount = 0]
           ELSE stopMotorSep7a([s1 EXCEPT !.stopRequested = TRUE])

handleSetKeySep7a(s) ==
  IF ~s.setMode
  THEN [s EXCEPT !.setMode = TRUE, !.timingInProgress = TRUE,
                 !.timingElapsed = 0, !.calRuns = 0,
                 !.enablePin = "LOW", !.dirPin = "HIGH",
                 !.motorRunning = TRUE]
  ELSE LET duration == s.timingElapsed
       IN  [saveCurtainTime([s EXCEPT !.enablePin = "HIGH",
                                      !.motorRunning = FALSE,
                                      !.timingInProgress = FALSE,
                                      !.CURTAIN_TIME = duration])
              EXCEPT !.setMode = FALSE, !.timingElapsed = 0, !.calRuns = 0]

\* rotateForTime up to its while loop
rotateForTimeSep7a(s, duration, clockwise) ==
  [s EXCEPT !.enablePin = "LOW", !.dirPin = Level(clockwise),
            !.rStepCount = 0, !.rDuration = duration, !.stopAvailAt = -1,
            !.pc = "rotate"]

\* smoothRotate up to its for loop
smoothRotate(s, steps, clockwise) ==
  [s EXCEPT !.enablePin = "LOW", !.dirPin = Level(clockwise),
            !.rStepCount = 0, !.rDuration = steps, !.stopAvailAt = -1,
            !.pc = "smooth"]

\* rollUpCurtain up to the return of rotateForTime, and after it
rollUpCurtainSep7a(s) ==
  rotateForTimeSep7a([s EXCEPT !.motorRunning = TRUE, !.stopRequested = FALSE],
                     s.CURTAIN_TIME, FALSE)

rollUpCurtainEndSep7a(s) ==
  [s EXCEPT !.motorRunning = FALSE, !.stopRequested = FALSE]

layDownCurtainSep7a(s) ==
  rotateForTimeSep7a([s EXCEPT !.motorRunning = TRUE, !.stopRequested = FALSE],
                     s.CURTAIN_TIME, TRUE)

layDownCurtainEndSep7a(s) ==
  [s EXCEPT !.motorRunning = FALSE, !.stopRequested = FALSE]

\* the switch of handleIRCommand; a move leaves pc = "rotate" or "smooth"
handleIRCommandSep7a(s, command) ==
  LET h == [s EXCEPT !.caller = command]
  IN  CASE command = IR_KEY_UP -> rollUpCurtainSep7a(h)
        [] command = IR_KEY_DOWN -> layDownCurtainSep7a(h)
        [] command = IR_KEY_LEFT ->
             smoothRotate(h, (45 * TOTAL_STEPS) \div 360, FALSE)
        [] command = IR_KEY_RIGHT ->
             smoothRotate(h, (45 * TOTAL_STEPS) \div 360, TRUE)
        [] command = IR_KEY_SET -> handleSetKeySep7a(s)
        [] command = IR_KEY_SHUTDOWN_SEP7A -> handleShutdownKeySep7a(s)
        [] OTHER -> s

(***************************************************************************)
(* sketch_sep7a: loop().                                                   *)
(***************************************************************************)
\* the end of loop(): the idle delay
loopTailSep7a(s) ==
  [(IF ~s.setMode \/ ~s.timingInProgress THEN Pass(s, LOOP_DELAY) ELSE s)
     EXCEPT !.pc = "loop"]

\* the 500-step decoder poll of the set-mode stepping branch, then the end of
\* loop()
setModePollSep7a(s) ==
  IF (s.loopStepCount % SET_MODE_POLL_STEPS = 0) /\ ~s.irPending.none
  THEN IF ValidStopSep7a(s.irPending)
       THEN resume([s EXCEPT !.enablePin = "HIGH", !.setMode = FALSE,
                             !.timingInProgress = FALSE, !.timingElapsed = 0,
                             !.motorRunning = FALSE, !.loopStepCount = 0,
                             !.calRuns = 0, !.pc = "loop"])
       ELSE loopTailSep7a(resume(s))
  ELSE loopTailSep7a(s)

\* the set-mode stepping branch: n iterations of loop() that each emit one
\* step pulse and decode nothing; the last one's 500-step poll sees frame f
setModeStepsSep7a(s, n, f) ==
  LET s1 == Pass([s EXCEPT !.loopStepCount = (@ + n) % SET_MODE_POLL_STEPS],
                 ElapsedMsSep7a(n))
  IN  setModePollSep7a(IF s1.irPending.none
                       THEN [s1 EXCEPT !.irPending = f,
                                       !.moveLog = [@ EXCEPT !.arrived = f]]
                       ELSE s1)

\* loop() after its decode block
loopRestSep7a(s) ==
  IF s.setMode /\ s.timingInProgress /\ s.motorRunning
  THEN setModeStepsSep7a(s, 1, None)
  ELSE loopTailSep7a(s)

\* loop() after handleIRCommand has returned in normal mode
afterDispatchSep7a(s, command) ==
  loopRestSep7a(resume([s EXCEPT !.lastIRCommand = command,
                                 !.sinceLastIR = s.sinceDecode]))

dispatchSep7a(s, command) ==
  LET h == handleIRCommandSep7a([s EXCEPT !.dispatched = TRUE], command)
  IN  IF h.pc # "loop" THEN h ELSE afterDispatchSep7a(h, command)

\* one iteration of loop() whose decode() reports frame f
loopDecodeSep7a(s0, f) ==
  LET s == [s0 EXCEPT
              !.dispatched = FALSE, !.sinceDecode = 0, !.presses = @ + 1,
              !.recv = f, !.sinceRecv = 0, !.moveLog = NoLog,
              !.seen = [frame |-> f, setMode |-> s0.setMode,
                        differs |-> f.command # s0.lastIRCommand,
                        age |-> IF s0.sinceLastIR > SET_MODE_DEBOUNCE_TIME THEN 2
                                ELSE IF s0.sinceLastIR > IR_DEBOUNCE_TIME THEN 1
                                ELSE 0,
                        repeat |-> /\ ~s0.recv.none
                                   /\ f.command = s0.recv.command
                                   /\ s0.sinceRecv < IR_DEBOUNCE_TIME,
                        stopGap |-> IF f.command = IR_KEY_SHUTDOWN_SEP7A
                                    THEN s0.sinceShutdown ELSE 0,
                        sinceMove |-> IF f.command = IR_KEY_SHUTDOWN_SEP7A
                                      THEN s0.moveLog.age ELSE -1]]
  IN  IF s.setMode
      THEN IF /\ f.command \in {IR_KEY_SET, IR_KEY_SHUTDOWN_SEP7A}
              /\ f.command # 0 /\ f.command # INVALID_COMMAND
              /\ f.address # 0 /\ f.protocol # 0
              /\ AcceptSetMode(s, f.command)
           THEN resume([handleIRCommandSep7a([s EXCEPT !.dispatched = TRUE],
                                             f.command)
                          EXCEPT !.lastIRCommand = f.command, !.sinceLastIR = 0])
           ELSE resume(s)
      ELSE IF f.command # 0 /\ f.command # INVALID_COMMAND
           THEN IF /\ s.motorRunning /\ f.command = IR_KEY_SHUTDOWN_SEP7A
                   /\ f.address # 0 /\ f.protocol # 0
                THEN dispatchSep7a(s, f.command)
                ELSE IF AcceptNormal(s, f.command)
                THEN dispatchSep7a(s, f.command)
                ELSE loopRestSep7a(resume(s))
           ELSE loopRestSep7a(resume(s))

loopIdleSep7a(s, w) ==
  IF w = 0 THEN s
  ELSE IF s.setMode /\ s.timingInProgress /\ s.motorRunning
  THEN setModeStepsSep7a(s, w, None)
  ELSE IF ~s.setMode \/ ~s.timingInProgress
  THEN loopTailSep7a(Pass(s, (w - 1) * LOOP_DELAY))
  ELSE loopTailSep7a(s)

(***************************************************************************)
(* sketch_sep7a: the loops of rotateForTime and smoothRotate.              *)
(***************************************************************************)
TotalStepsSep7a(duration) ==
  IF duration <= 0 THEN 0
  ELSE (duration * 1000 + stepDelaySep7a - 1) \div stepDelaySep7a

\* the log of a move that has just returned
MoveLog(s) ==
  [steps |-> s.rStepCount,
   afterStop |-> IF s.stopAvailAt >= 0 THEN s.rStepCount - s.stopAvailAt ELSE -1,
   duration |-> s.rDuration, clockwise |-> s.dirPin = "HIGH",
   stopped |-> s.stopRequested, arrived |-> s.moveLog.arrived,
   pending |-> ~s.irPending.none, age |-> 0]

\* rotateForTime after its while loop, then its caller, then loop()
rotateReturnSep7a(s) ==
  LET s1 == [s EXCEPT !.moveLog = MoveLog(s),
                      !.sinceDecode = Min(ElapsedMsSep7a(s.rStepCount), AgeMax)]
      s2 == CASE s.caller = IR_KEY_UP -> rollUpCurtainEndSep7a(s1)
              [] s.caller = IR_KEY_DOWN -> layDownCurtainEndSep7a(s1)
              [] OTHER -> s1
  IN  [afterDispatchSep7a(s2, s.caller)
         EXCEPT !.rStepCount = 0, !.rDuration = 0, !.caller = 0, !.stopAvailAt = -1]

ToNextPollSep7a(s) ==
  Min(ROTATE_POLL_STEPS - (s.rStepCount % ROTATE_POLL_STEPS),
      TotalStepsSep7a(s.rDuration) - s.rStepCount)

\* the next n pulses of the while loop
rotateStepsSep7a(s, n) ==
  LET total == TotalStepsSep7a(s.rDuration)
  IN  IF s.stopRequested \/ s.rStepCount >= total THEN rotateReturnSep7a(s)
      ELSE
        LET c == s.rStepCount + n
            s1 == Pass([s EXCEPT !.rStepCount = c],
                       ElapsedMsSep7a(c) - ElapsedMsSep7a(s.rStepCount))
            polled == c % ROTATE_POLL_STEPS = 0 /\ ~s1.irPending.none
        IN  IF polled /\ ValidStopSep7a(s1.irPending)
            THEN rotateReturnSep7a(resume([s1 EXCEPT !.stopRequested = TRUE]))
            ELSE LET s2 == IF polled THEN resume(s1) ELSE s1
                 IN  IF c >= total THEN rotateReturnSep7a(s2) ELSE s2

\* a frame reaches the receiver (ignored while a decoded frame awaits resume())
receiveSep7a(s, f) ==
  IF ~s.irPending.none \/ f.none THEN s
  ELSE [s EXCEPT !.irPending = f,
                 !.moveLog = IF s.pc # "loop" THEN [@ EXCEPT !.arrived = f] ELSE @,
                 !.stopAvailAt = IF s.pc # "loop" /\ ValidStopSep7a(f) /\ @ < 0
                                 THEN s.rStepCount ELSE @]

RECURSIVE rotateRunSep7a(_, _, _)
rotateRunSep7a(s, q, f) ==
  IF s.pc # "rotate" THEN s
  ELSE LET s1 == IF q = 0 THEN receiveSep7a(s, f) ELSE s
       IN  rotateRunSep7a(
             rotateStepsSep7a(s1, IF q < 0 /\ s1.irPending.none
                                  THEN TotalStepsSep7a(s1.rDuration) - s1.rStepCount
                                  ELSE ToNextPollSep7a(s1)),
             q - 1, f)

\* a ramp whose fall mirrors its rise
currentSpeedMirrored(i, steps) ==
  LET accelSteps == steps \div 4
      decelSteps == steps \div 4
  IN  IF i < accelSteps
      THEN minSpeed + ((maxSpeed - minSpeed) * i) \div accelSteps
      ELSE IF i >= steps - decelSteps
      THEN minSpeed + ((maxSpeed - minSpeed) * (steps - 1 - i)) \div decelSteps
      ELSE maxSpeed

\* smoothRotate: the speed of step i of a move of `steps` steps
currentSpeed(i, steps) ==
  LET accelSteps == steps \div 4
      decelSteps == steps \div 4
  IN  IF i < accelSteps
      THEN minSpeed + ((maxSpeed - minSpeed) * i) \div accelSteps
      ELSE IF i >= steps - decelSteps
      THEN minSpeed + ((maxSpeed - minSpeed) * (steps - i)) \div decelSteps
      ELSE maxSpeed

\* microseconds taken by steps a .. b-1 (the sum of their step delays, added
\* up by halves)
RECURSIVE SmoothMicros(_, _, _)
SmoothMicros(a, b, steps) ==
  IF a >= b THEN 0
  ELSE IF b = a + 1 THEN 1000000 \div currentSpeed(a, steps)
  ELSE LET m == (a + b) \div 2
       IN  SmoothMicros(a, m, steps) + SmoothMicros(m, b, steps)

\* smoothRotate after its for loop, then loop()
smoothReturn(s) ==
  LET s1 == [s EXCEPT !.moveLog = MoveLog(s), !.stopRequested = FALSE,
                      !.sinceDecode = Min(SmoothMicros(0, s.rStepCount, s.rDuration)
                                            \div 1000, AgeMax)]
  IN  [afterDispatchSep7a(s1, s.caller)
         EXCEPT !.rStepCount = 0, !.rDuration = 0, !.caller = 0, !.stopAvailAt = -1]

\* steps up to the next decoder poll of the for loop (after a step i with
\* i % 100 == 0) or to its end
ToNextPollSmooth(s) ==
  Min(SMOOTH_POLL_STEPS - ((s.rStepCount - 1) % SMOOTH_POLL_STEPS),
      s.rDuration - s.rStepCount)

\* the next n steps of the for loop
smoothSteps(s, n) ==
  IF s.stopRequested \/ s.rStepCount >= s.rDuration THEN smoothReturn(s)
  ELSE
    LET c == s.rStepCount + n
        s1 == Pass([s EXCEPT !.rStepCount = c],
                   SmoothMicros(s.rStepCount, c, s.rDuration) \div 1000)
        polled == (c - 1) % SMOOTH_POLL_STEPS = 0 /\ ~s1.irPending.none
    IN  IF polled /\ ValidStopSep7a(s1.irPending)
        THEN smoothReturn(resume([s1 EXCEPT !.stopRequested = TRUE]))
        ELSE LET s2 == IF polled THEN resume(s1) ELSE s1
             IN  IF c >= s.rDuration THEN smoothReturn(s2) ELSE s2

RECURSIVE smoothRun(_, _, _)
smoothRun(s, q, f) ==
  IF s.pc # "smooth" THEN s
  ELSE LET s1 == IF q = 0 THEN receiveSep7a(s, f) ELSE s
       IN  smoothRun(smoothSteps(s1, IF q < 0 /\ s1.irPending.none
                                     THEN s1.rDuration - s1.rStepCount
                                     ELSE ToNextPollSmooth(s1)),
                     q - 1, f)

(***************************************************************************)
(* sketch_sep7a: the state machine.                                        *)
(***************************************************************************)
\* frames the decoder may deliver: the six keys of the remote, noise, and
\* frames with address 0 or from another remote
IRFramesSep7a ==
  {Frame(k, IR_ADDRESS, 1) :
     k \in {IR_KEY_UP, IR_KEY_DOWN, IR_KEY_LEFT, IR_KEY_RIGHT, IR_KEY_SET,
            IR_KEY_SHUTDOWN_SEP7A, INVALID_COMMAND}}
  \cup {Frame(IR_KEY_SET, 0, 1), Frame(IR_KEY_UP, 1, 1)}

MoveFramesSep7a ==
  {None, Frame(IR_KEY_SHUTDOWN_SEP7A, IR_ADDRESS, 1),
   Frame(IR_KEY_SHUTDOWN_SEP7A, IR_ADDRESS, 0), Frame(IR_KEY_SET, IR_ADDRESS, 1)}

\* setup()
InitSep7a ==
  \E stored \in InitStoredTimes :
    LET e == EepromPutInt([i \in 0..4 |-> 255], 0, stored)
        s == loadCurtainTime([CURTAIN_TIME |-> DEFAULT_CURTAIN_TIME, eeprom |-> e])
    IN  /\ sketch = "sketch_sep7a"
        /\ CURTAIN_TIME = s.CURTAIN_TIME
        /\ isNormalDirection = TRUE
        /\ eeprom = e
        /\ motorRunning = FALSE /\ stopRequested = FALSE
        /\ isFullyRolledUp = FALSE /\ isFullyRolledDown = FALSE
        /\ setMode = FALSE /\ timingInProgress = FALSE /\ timingElapsed = 0
        /\ shutdownCount = 0 /\ sinceShutdown = 0
        /\ lastIRCommand = 0 /\ sinceLastIR = 0
        /\ enablePin = "HIGH" /\ dirPin = "LOW"
        /\ loopStepCount = 0 /\ irPending = None /\ pc = "loop"
        /\ caller = 0 /\ rStepCount = 0 /\ rDuration = 0 /\ calRuns = 0
        /\ presses = 0 /\ dispatched = FALSE /\ seen = NoSeen
        /\ recv = None /\ sinceRecv = 0
        /\ stopAvailAt = -1 /\ moveLog = NoLog

PressSep7a ==
  /\ sketch = "sketch_sep7a"
  /\ pc = "loop" /\ presses < MaxPresses
  /\ \E w \in Waits, f \in IRFramesSep7a :
       /\ setMode => w = 0
       /\ Becomes(loopDecodeSep7a(receiveSep7a(loopIdleSep7a(Start, w), f), f))

CalRunSep7a ==
  /\ sketch = "sketch_sep7a"
  /\ pc = "loop"
  /\ setMode /\ timingInProgress /\ motorRunning
  /\ calRuns < MaxCalRuns
  /\ \E k \in {1, LongRunSep7a}, f \in MoveFramesSep7a :
       LET n == k * SET_MODE_POLL_STEPS - loopStepCount
       IN  /\ timingElapsed + ElapsedMsSep7a(n) <= MaxCalibration
           /\ Becomes(setModeStepsSep7a([Start EXCEPT !.dispatched = FALSE,
                                                      !.seen = NoSeen,
                                                      !.calRuns = @ + 1], n, f))

RotateRunSep7a ==
  /\ sketch = "sketch_sep7a"
  /\ pc = "rotate"
  /\ \E q \in 0..MaxStopPolls, f \in MoveFramesSep7a :
       /\ f.none => q = 0
       /\ Becomes(rotateRunSep7a(Start, q, f))

SmoothRun ==
  /\ sketch = "sketch_sep7a"
  /\ pc = "smooth"
  /\ \E q \in 0..MaxStopPolls, f \in MoveFramesSep7a :
       /\ f.none => q = 0
       /\ Becomes(smoothRun(Start, q, f))

NextSep7a == PressSep7a \/ CalRunSep7a \/ RotateRunSep7a \/ SmoothRun

SpecSep7a == InitSep7a /\ [][NextSep7a]_vars

\* either sketch
SpecBoth == (Init \/ InitSep7a) /\ [][Next \/ NextSep7a]_vars

(***************************************************************************)
(* Power-up of either sketch: setup() reads the configuration from         *)
(* whatever the EEPROM holds.                                              *)
(***************************************************************************)
\* 32-bit values the duration field may hold at power-up
StoredTimes ==
  {-2147483647 - 1, -60000, -1, 0, 1, 2000, 5000, 59999, 60000, 60001, 65536,
   70000, 16777216, 2147483647}

\* the globals as their initializers leave them, before setup() runs
PowerOn ==
  \E stored \in StoredTimes, dir \in InitStoredDirections,
     sk \in {"skech_smart_roller_blind", "sketch_sep7a"} :
    /\ sketch = sk
    /\ CURTAIN_TIME = DEFAULT_CURTAIN_TIME
    /\ isNormalDirection = TRUE
    /\ eeprom = [EepromPutInt([i \in 0..4 |-> 255], 0, stored) EXCEPT ![4] = dir]
    /\ motorRunning = FALSE /\ stopRequested = FALSE
    /\ isFullyRolledUp = FALSE /\ isFullyRolledDown = FALSE
    /\ setMode = FALSE /\ timingInProgress = FALSE /\ timingElapsed = 0
    /\ shutdownCount = 0 /\ sinceShutdown = 0
    /\ lastIRCommand = 0 /\ sinceLastIR = 0
    /\ enablePin = "HIGH" /\ dirPin = "LOW"
    /\ loopStepCount = 0 /\ irPending = None /\ pc = "setup"
    /\ caller = 0 /\ rStepCount = 0 /\ rDuration = 0 /\ calRuns = 0
    /\ presses = 0 /\ dispatched = FALSE /\ seen = NoSeen
    /\ recv = None /\ sinceRecv = 0
    /\ stopAvailAt = -1 /\ moveLog = NoLog

\* setup(): sketch_sep7a loads the duration only
setup ==
  /\ pc = "setup"
  /\ \E u \in BOOLEAN :
     LET s == IF sketch = "skech_smart_roller_blind"
              THEN loadDirectionSetting(loadCurtainTime(Cur), u)
              ELSE loadCurtainTime(Cur)
     IN  Becomes([s EXCEPT !.enablePin = "HIGH", !.dirPin = "LOW",
                           !.isFullyRolledUp = FALSE,
                           !.isFullyRolledDown = FALSE, !.pc = "loop"])

SpecSetup == PowerOn /\ [][setup]_vars

(***************************************************************************)
(* skech_smart_roller_blind with a remote of which only the stop, direction *)
(* and left keys are pressed, for runs of one press more.                   *)
(***************************************************************************)
\* presses in one run of the three-key remote
MaxKeyPresses == 4

\* the three keys
KeyFrames ==
  {Frame(k, IR_ADDRESS, 1) : k \in {IR_KEY_SHUTDOWN, IR_KEY_DIRECTION, IR_KEY_LEFT}}

\* idle iterations of loop() (50 ms each) before a key is decoded: none,
\* enough to pass the debounce window, enough to pass the repeat window
KeyWaits == {0, 4, 38}

\* one press of the three-key remote: w iterations of loop() that decode
\* nothing, then one that decodes frame f
PressKey ==
  /\ sketch = "skech_smart_roller_blind"
  /\ pc = "loop" /\ presses < MaxKeyPresses
  /\ \E w \in KeyWaits, f \in KeyFrames :
       Becomes(loopDecode(receive(loopIdle(Start, w), f), f))

SpecKeys == Init /\ [][PressKey \/ RotateRun]_vars

(***************************************************************************)
(* sketch_sep7a: smoothRotate on its own, one iteration of its for loop at *)
(* a time, for moves of few steps and for the nudge of 45 degrees.          *)
(***************************************************************************)
\* the longest of the short moves
MaxSmoothSteps == 24

\* the step counts smoothRotate is called with
SmoothStepCounts == 0..MaxSmoothSteps \cup {(45 * TOTAL_STEPS) \div 360}

\* smoothRotate has been called in Idle after setup(), and is at its for loop
InitSmooth ==
  \E steps \in SmoothStepCounts, clockwise \in BOOLEAN :
    /\ sketch = "sketch_sep7a"
    /\ CURTAIN_TIME = DEFAULT_CURTAIN_TIME
    /\ isNormalDirection = TRUE
    /\ eeprom = EepromPutInt([i \in 0..4 |-> 255], 0, -1)
    /\ motorRunning = FALSE /\ stopRequested = FALSE
    /\ isFullyRolledUp = FALSE /\ isFullyRolledDown = FALSE
    /\ setMode = FALSE /\ timingInProgress = FALSE /\ timingElapsed = 0
    /\ shutdownCount = 0 /\ sinceShutdown = 0
    /\ lastIRCommand = 0 /\ sinceLastIR = 0
    /\ enablePin = "LOW" /\ dirPin = Level(clockwise)
    /\ loopStepCount = 0 /\ pc = "smooth"
    /\ caller = (IF clockwise THEN IR_KEY_RIGHT ELSE IR_KEY_LEFT)
    /\ irPending = Frame(caller, IR_ADDRESS, 1)
    /\ rStepCount = 0 /\ rDuration = steps /\ calRuns = 0
    /\ presses = 0 /\ dispatched = FALSE /\ seen = NoSeen
    /\ recv = None /\ sinceRecv = 0
    /\ stopAvailAt = -1 /\ moveLog = NoLog

\* one iteration of the for loop (or its end), with nothing in the decoder
SmoothStep ==
  /\ sketch = "sketch_sep7a"
  /\ pc = "smooth"
  /\ Becomes(smoothSteps(Start, 1))

SpecSmooth == InitSmooth /\ [][SmoothStep]_vars

(***************************************************************************)
(* Properties of skech_smart_roller_blind.                                 *)
(***************************************************************************)
\* the dispatcher states
Idle == pc = "loop" /\ ~setMode
Moving == pc # "loop"
Calibrating == setMode

\* C1: a valid stop frame that reaches the decoder during a timed move
\* (full roll or nudge) ends the move: after the frame became available
\* the motor emits at most 100 further step pulses, whatever lastIRCommand
\* and lastIRTime hold
C1_StopEndsMoveWithin100 ==
  /\ moveLog.afterStop <= ROTATE_POLL_STEPS
  /\ (moveLog.afterStop >= 0 /\ moveLog.steps < TotalSteps(moveLog.duration))
       => moveLog.stopped

\* a roll was cut short by a stop that arrived 100 pulses before the poll
\* that saw it
C1_Witness ==
  /\ moveLog.stopped /\ moveLog.afterStop = ROTATE_POLL_STEPS
  /\ moveLog.steps < TotalSteps(moveLog.duration)
  /\ moveLog.duration > SIDE_KEY_TIME

\* C2: at a loop() iteration boundary with setMode false and no timed move
\* in flight ENABLE_PIN is HIGH; ENABLE_PIN is LOW only during a timed move
\* or in set mode
C2_EnableOnlyWhileMoving ==
  /\ Idle => enablePin = "HIGH"
  /\ enablePin = "LOW" => (Moving \/ Calibrating)

\* idle again after a timed move that emitted pulses, and after a
\* calibration that was ended by the stop key
C2_Witness ==
  /\ Idle /\ enablePin = "HIGH"
  /\ \/ moveLog.steps > 0
     \/ seen.setMode /\ dispatched /\ seen.frame.command = IR_KEY_SHUTDOWN

(***************************************************************************)
(* Properties of sketch_sep7a and of both sketches.                        *)
(***************************************************************************)
\* C3: in sketch_sep7a, whenever no motion is in progress (the move has
\* returned to loop() and setMode is false) ENABLE_PIN is HIGH
C3_Sep7aIdleDisabled ==
  (sketch = "sketch_sep7a" /\ pc = "loop" /\ ~setMode) => enablePin = "HIGH"

\* the step just taken is an iteration of loop() that decoded a frame
Decoded == presses' = presses + 1

\* C4: Idle, Moving and Calibrating exclude each other, and in set mode a
\* decoded frame that is neither the SET code nor a valid stop leaves
\* setMode, isNormalDirection, CURTAIN_TIME, the EEPROM, the position hints,
\* lastIRCommand and lastIRTime unchanged and starts no timed move
C4_CalibratingIgnoresOthers ==
  /\ [](~(Moving /\ Calibrating) /\ (Idle <=> ~Moving /\ ~Calibrating))
  /\ [][(Decoded /\ setMode /\ seen'.frame.command # IR_KEY_SET
           /\ ~ValidStop(seen'.frame))
        => /\ UNCHANGED <<setMode, isNormalDirection, CURTAIN_TIME, eeprom,
                          isFullyRolledUp, isFullyRolledDown, lastIRCommand,
                          sinceLastIR>>
           /\ ~dispatched' /\ pc' = "loop"]_vars

\* a direction key, decoded in set mode, was dropped
C4_Witness ==
  /\ setMode /\ seen.setMode /\ ~dispatched
  /\ seen.frame.command = IR_KEY_DIRECTION /\ seen.frame.address = IR_ADDRESS

\* the frame decoded last is one the normal-mode branch of loop() tests for
\* repetition: normal mode, code not 0xFFFFFFFF
NormalValid ==
  ~seen.frame.none /\ ~seen.setMode /\ seen.frame.command # INVALID_COMMAND

\* ... and, in skech_smart_roller_blind, sent to IR_ADDRESS; in
\* sketch_sep7a, with a code other than 0
Eligible ==
  /\ NormalValid
  /\ sketch = "skech_smart_roller_blind" => seen.frame.address = IR_ADDRESS
  /\ sketch = "sketch_sep7a" => seen.frame.command # 0

\* lastIRCommand and lastIRTime change only in a step that dispatches
LastChangesOnlyOnDispatch ==
  [][(lastIRCommand' # lastIRCommand
        \/ sinceLastIR' < Min(sinceLastIR, IR_DEBOUNCE_TIME + 1))
     => dispatched']_vars

\* C5 as stated: in normal mode a decoded frame with a valid code is
\* dispatched iff its code differs from lastIRCommand or more than 200 ms
\* have passed since lastIRTime; of two consecutive frames with the same
\* code decoded less than 200 ms apart the second is not dispatched
C5_AsStated ==
  /\ NormalValid => (dispatched <=> (seen.differs \/ seen.age >= 1))
  /\ (NormalValid /\ seen.repeat) => ~dispatched

\* C5, amended: the equivalence holds for the frames the sketch admits to
\* the test (skech_smart_roller_blind: sent to IR_ADDRESS; sketch_sep7a:
\* code not 0); a frame with the code of the last dispatched command,
\* decoded at most 200 ms after that dispatch, is not dispatched; and
\* lastIRCommand and lastIRTime change only on a dispatch
C5_Debounce ==
  /\ [](Eligible => (dispatched <=> (seen.differs \/ seen.age >= 1)))
  /\ []((NormalValid /\ ~seen.differs /\ seen.age = 0) => ~dispatched)
  /\ LastChangesOnlyOnDispatch

\* a repetition was dropped, and the next one, 150 ms later and past the
\* window, was dispatched
C5_Witness ==
  Eligible /\ seen.repeat /\ ~seen.differs /\ seen.age >= 1 /\ dispatched

\* the stop key of the configured remote, for the sketch that runs
RemoteStop(f) ==
  /\ f.command = (IF sketch = "sketch_sep7a" THEN IR_KEY_SHUTDOWN_SEP7A
                  ELSE IR_KEY_SHUTDOWN)
  /\ f.address = IR_ADDRESS /\ f.protocol # 0

\* C6: in set mode the debounce window is 1000 ms: a SET frame decoded less
\* than 1000 ms after the SET press that started the session is not
\* dispatched, so the session is not ended and nothing is saved; a stop
\* frame is dispatched at once and ends the session
C6_CalibrationDebounce ==
  [][(Decoded /\ setMode)
     => /\ (seen'.frame.command = IR_KEY_SET
              /\ timingElapsed < SET_MODE_DEBOUNCE_TIME)
           => (~dispatched' /\ setMode' /\ UNCHANGED <<CURTAIN_TIME, eeprom>>)
        /\ RemoteStop(seen'.frame) => (dispatched' /\ ~setMode')]_vars

\* the direction of the spec table: CW under Normal for roll-up and
\* nudge-down (right key), CCW for roll-down, nudge-up (left key) and
\* calibration; the opposite under Reversed
TableClockwise(command, normal) ==
  IF command \in {IR_KEY_UP, IR_KEY_RIGHT} THEN normal ELSE ~normal

\* C7: the direction each action drives DIR_PIN with is the one of the
\* spec table, so that the left key turns opposite to roll-up
C7_DirectionTable ==
  /\ pc = "rotate" => dirPin = Level(TableClockwise(caller, isNormalDirection))
  /\ setMode => dirPin = Level(TableClockwise(IR_KEY_SET, isNormalDirection))

\* the direction the code passes for the action a key starts
Resolve(command, normal) ==
  CASE command = IR_KEY_UP -> rollUpDirection(normal)
    [] command = IR_KEY_DOWN -> layDownDirection(normal)
    [] command = IR_KEY_LEFT -> leftDirection(normal)
    [] command = IR_KEY_RIGHT -> rightDirection(normal)
    [] OTHER -> setDirection(normal)

\* C8: for each of the five actions the direction passed to the motor under
\* one orientation is the opposite of the one passed under the other, the
\* calibration drive has the roll-down direction, and DIR_PIN carries that
\* direction during a timed move and in set mode
C8_FlipOpposite ==
  /\ \A c \in {IR_KEY_UP, IR_KEY_DOWN, IR_KEY_LEFT, IR_KEY_RIGHT, IR_KEY_SET} :
       \A n \in BOOLEAN : Resolve(c, n) = ~Resolve(c, ~n)
  /\ \A n \in BOOLEAN : setDirection(n) = layDownDirection(n)
  /\ pc = "rotate" => dirPin = Level(Resolve(caller, isNormalDirection))
  /\ setMode => dirPin = Level(Resolve(IR_KEY_SET, isNormalDirection))

\* a nudge under Reversed orientation is in flight, turning the other way
\* than under Normal
C8_Witness ==
  /\ pc = "rotate" /\ caller = IR_KEY_LEFT /\ ~isNormalDirection
  /\ dirPin = Level(~leftDirection(TRUE))

\* the SET press decoded last ended a calibration session and saved
JustSaved ==
  /\ sketch = "skech_smart_roller_blind"
  /\ seen.setMode /\ seen.frame.command = IR_KEY_SET /\ dispatched /\ ~setMode

\* what loadCurtainTime yields from the EEPROM as it is now
Reloaded == loadCurtainTime(Cur).CURTAIN_TIME

\* save a duration d to a blank EEPROM and load it again
RoundTrip(d) ==
  loadCurtainTime(saveCurtainTime(
    [CURTAIN_TIME |-> d, eeprom |-> [i \in 0..4 |-> 255]])).CURTAIN_TIME

\* C9 as stated: after a calibration of any duration D has been saved,
\* loadCurtainTime yields D, the value the session holds in memory
C9_AsStated ==
  /\ [][JustSaved' => CURTAIN_TIME' = timingElapsed]_vars
  /\ [](JustSaved => Reloaded = CURTAIN_TIME)

\* C9, amended: the saved duration D is the time spent in set mode and is
\* what memory holds; loadCurtainTime yields D when 0 < D < 60000 and
\* DEFAULT_CURTAIN_TIME otherwise
C9_RoundTrip ==
  /\ [][JustSaved' => CURTAIN_TIME' = timingElapsed]_vars
  /\ [](JustSaved =>
          /\ EepromGetInt(eeprom, 0) = CURTAIN_TIME
          /\ Reloaded = IF CURTAIN_TIME > 0 /\ CURTAIN_TIME < MAX_CURTAIN_TIME
                        THEN CURTAIN_TIME ELSE DEFAULT_CURTAIN_TIME)
  /\ [](\A d \in {1, MAX_CURTAIN_TIME - 1} : RoundTrip(d) = d)
  /\ [](\A d \in {0, MAX_CURTAIN_TIME, MAX_CURTAIN_TIME + 1} :
          RoundTrip(d) = DEFAULT_CURTAIN_TIME)

\* a calibration of just under a minute was saved and loads back as it is
C9_Witness ==
  JustSaved /\ CURTAIN_TIME > SET_MODE_POLL_STEPS /\ Reloaded = CURTAIN_TIME
  /\ CURTAIN_TIME > 10 * DEFAULT_CURTAIN_TIME

\* C10: CURTAIN_TIME is always greater than 0 and at most 60000
C10_CurtainTimeInRange ==
  CURTAIN_TIME > 0 /\ CURTAIN_TIME <= MAX_CURTAIN_TIME

(***************************************************************************)
(* Properties of the configuration store.                                  *)
(***************************************************************************)
\* the duration field holds the 32-bit value v
Stored(v) == \A i \in 0..3 : eeprom[i] = IntBytes(v)[i]

JustCleared ==
  /\ sketch = "skech_smart_roller_blind"
  /\ dispatched /\ ~seen.setMode /\ seen.frame.command = IR_KEY_SHUTDOWN
  /\ shutdownCount = 0

\* CURTAIN_TIME right after clearCurtainTime, and after the loadCurtainTime
\* that follows it, from a duration d in memory and v in the EEPROM
ClearThenLoad(d, v) ==
  LET c == clearCurtainTime(
             [CURTAIN_TIME |-> d,
              eeprom |-> EepromPutInt([i \in 0..4 |-> 255], 0, v)])
  IN  <<c.CURTAIN_TIME, loadCurtainTime(c).CURTAIN_TIME>>

\* C12: whatever CURTAIN_TIME and the stored duration were, right after
\* clearCurtainTime CURTAIN_TIME is DEFAULT_CURTAIN_TIME (5000), and a
\* loadCurtainTime that follows yields DEFAULT_CURTAIN_TIME as well
C12_ClearThenLoad ==
  /\ [](JustCleared =>
          /\ CURTAIN_TIME = DEFAULT_CURTAIN_TIME
          /\ Reloaded = DEFAULT_CURTAIN_TIME)
  /\ \A d \in StoredTimes, v \in StoredTimes :
       ClearThenLoad(d, v) = <<5000, 5000>>

\* a triple stop press has cleared the store
C12_Witness ==
  JustCleared /\ EepromGetInt(eeprom, 0) = 0 /\ CURTAIN_TIME = DEFAULT_CURTAIN_TIME

(***************************************************************************)
(* Properties of the stop key.                                             *)
(***************************************************************************)
\* the frame decoded last was a stop press that loop() dispatched outside
\* set mode (handleShutdownKey's counting branch)
StopDispatched ==
  /\ sketch = "skech_smart_roller_blind"
  /\ dispatched /\ ~seen.setMode /\ seen.frame.command = IR_KEY_SHUTDOWN

\* what a dispatched stop press does when `within` says whether it counts as
\* a repetition of the previous one
StopPressCounts(within) ==
  (Decoded /\ StopDispatched') =>
    LET count == IF within THEN shutdownCount + 1 ELSE 1
    IN  IF count >= 3
        THEN /\ CURTAIN_TIME' = DEFAULT_CURTAIN_TIME
             /\ EepromGetInt(eeprom', 0) = 0
             /\ shutdownCount' = 0
        ELSE /\ shutdownCount' = count
             /\ CURTAIN_TIME' = CURTAIN_TIME /\ eeprom' = eeprom

\* C13 as stated: a stop press dispatched outside calibration at most 2000 ms
\* after the previous one (exactly 2000 ms included) increments the repeat
\* count, a later one makes it 1; the press that makes it 3 resets
\* CURTAIN_TIME to the default, writes the sentinel 0 and resets the count,
\* and no other stop press clears
C13_AsStated == [][StopPressCounts(seen'.stopGap <= 2000)]_vars

\* C13, amended: the press increments the count when less than 2000 ms have
\* passed since the previous counted stop press, and makes it 1 when 2000 ms
\* or more have passed
C13_TripleStop == [][StopPressCounts(seen'.stopGap < 2000)]_vars

\* the third press came 1950 ms after the second and cleared the store
C13_Witness ==
  StopDispatched /\ seen.stopGap = 1950 /\ shutdownCount = 0
  /\ EepromGetInt(eeprom, 0) = 0

\* three presses with a gap of exactly 2000 ms: the third left the count at 1
\* or 2 and cleared nothing
StopGapAtWindow ==
  StopDispatched /\ presses = 3 /\ seen.stopGap = 2000 /\ shutdownCount > 0
  /\ EepromGetInt(eeprom, 0) = 2000

\* C14: in sketch_sep7a a press of the stop key (code 0x0) decoded while Idle
\* and past the debounce test is dispatched: it disables the motor, and as
\* the third press of three less than 2000 ms apart it resets CURTAIN_TIME to
\* the default and writes the sentinel 0 to the stored duration
C14_Sep7aStopKey ==
  [][(/\ Decoded /\ sketch = "sketch_sep7a" /\ ~setMode /\ pc = "loop"
      /\ RemoteStop(seen'.frame)
      /\ (seen'.differs \/ seen'.age >= 1))
     => /\ dispatched'
        /\ IF shutdownCount = 2 /\ seen'.stopGap < 2000
           THEN CURTAIN_TIME' = DEFAULT_CURTAIN_TIME /\ EepromGetInt(eeprom', 0) = 0
           ELSE enablePin' = "HIGH" /\ ~motorRunning']_vars

(***************************************************************************)
(* Properties of the calibration session.                                  *)
(***************************************************************************)
\* the step just taken ended set mode on a stop frame: one decoded at the
\* top of loop(), or one seen by the 500-step poll (which decodes no frame at
\* the top of loop())
Aborted ==
  /\ setMode /\ ~setMode'
  /\ Decoded => seen'.frame.command = IR_KEY_SHUTDOWN

\* C15: a calibration session aborted by a valid stop, at the top of loop()
\* or at the 500-step poll, ends with ENABLE_PIN HIGH and setMode,
\* timingInProgress and motorRunning all false; entering set mode, stepping
\* in it and aborting it leave CURTAIN_TIME and the stored duration as they
\* were before the session
C15_AbortDiscards ==
  [][sketch = "skech_smart_roller_blind" =>
       /\ Aborted => /\ enablePin' = "HIGH" /\ pc' = "loop"
                     /\ ~timingInProgress' /\ ~motorRunning'
       /\ (setMode' \/ Aborted) => UNCHANGED <<CURTAIN_TIME, eeprom>>]_vars

\* the 500-step poll has aborted a session that started with a stored
\* duration of 2000 ms, which is still what memory and the EEPROM hold
C15_Witness ==
  /\ sketch = "skech_smart_roller_blind"
  /\ presses > 0 /\ seen = NoSeen /\ ~setMode /\ pc = "loop"
  /\ enablePin = "HIGH" /\ lastIRCommand = IR_KEY_SET
  /\ CURTAIN_TIME = 2000 /\ EepromGetInt(eeprom, 0) = 2000

\* the top of loop() has aborted a session
AbortedAtLoopTop ==
  /\ sketch = "skech_smart_roller_blind"
  /\ seen.setMode /\ seen.frame.command = IR_KEY_SHUTDOWN /\ dispatched
  /\ ~setMode /\ enablePin = "HIGH" /\ CURTAIN_TIME = 2000

(***************************************************************************)
(* Properties of the stop key in Idle and of the moves that follow.        *)
(***************************************************************************)
\* C16: a stop press dispatched while Idle that is not the third of a triple
\* press changes nothing but the debounce state (lastIRCommand, lastIRTime)
\* and the repeat count (shutdownCount, lastShutdownTime); in particular it
\* leaves stopRequested as it was, so that a later roll or nudge runs as if
\* the stop had not been pressed
C16_IdleStopNoOp ==
  [][(Decoded /\ Idle /\ StopDispatched' /\ shutdownCount' # 0)
     => UNCHANGED <<CURTAIN_TIME, isNormalDirection, motorRunning,
                    stopRequested, isFullyRolledUp, isFullyRolledDown,
                    setMode, timingInProgress, timingElapsed, eeprom,
                    enablePin, dirPin, pc>>]_vars

\* the stop press changes none of these apart from stopRequested
IdleStopSetsStopRequestedOnly ==
  [][(Decoded /\ Idle /\ StopDispatched' /\ shutdownCount' # 0)
     => /\ stopRequested'
        /\ UNCHANGED <<CURTAIN_TIME, isNormalDirection, motorRunning,
                       isFullyRolledUp, isFullyRolledDown,
                       setMode, timingInProgress, timingElapsed, eeprom,
                       enablePin, dirPin, pc>>]_vars

\* a nudge dispatched after a stop press in Idle has returned without a
\* single step pulse
NudgeAfterIdleStopStands ==
  /\ sketch = "skech_smart_roller_blind"
  /\ pc = "loop" /\ moveLog.steps = 0 /\ moveLog.duration = SIDE_KEY_TIME
  /\ moveLog.afterStop = -1

\* the move that has just returned to loop() was started by a nudge key
NudgeReturned ==
  /\ sketch = "skech_smart_roller_blind"
  /\ pc = "loop" /\ dispatched /\ ~seen.setMode
  /\ seen.frame.command \in {IR_KEY_LEFT, IR_KEY_RIGHT}
  /\ moveLog.steps >= 0

\* C17: a nudge dispatched while Idle, whatever came before it, emits step
\* pulses for SIDE_KEY_TIME (1000 ms) unless a valid stop reached the decoder
\* during that same move and ended it
C17_NudgeRunsFullTime ==
  NudgeReturned =>
    \/ ElapsedMs(moveLog.steps) >= SIDE_KEY_TIME
    \/ moveLog.stopped /\ moveLog.afterStop >= 0

\* a nudge as the first command after power-up runs its 1000 ms
NudgeRanFullTime ==
  NudgeReturned /\ presses = 1 /\ ElapsedMs(moveLog.steps) >= SIDE_KEY_TIME
  /\ ~moveLog.stopped

(***************************************************************************)
(* Properties of the position hints.                                       *)
(***************************************************************************)
\* the move that has just returned to loop() was started by roll key k
RollReturned(k) ==
  /\ sketch = "skech_smart_roller_blind"
  /\ pc = "loop" /\ dispatched /\ ~seen.setMode /\ seen.frame.command = k
  /\ moveLog.steps >= 0

\* that move stepped for the whole of CURTAIN_TIME and decoded no valid stop
FullRun ==
  /\ moveLog.duration = CURTAIN_TIME
  /\ ElapsedMs(moveLog.steps) >= moveLog.duration
  /\ ~moveLog.stopped

\* C18: a roll-down dispatched in Idle whose move runs the whole of
\* CURTAIN_TIME with no valid stop decoded ends with isFullyRolledDown true,
\* isFullyRolledUp false, the motor disabled and the dispatcher Idle; a
\* roll-up likewise with isFullyRolledUp true and isFullyRolledDown false
C18_FullRollSetsHint ==
  /\ (RollReturned(IR_KEY_DOWN) /\ FullRun)
       => /\ isFullyRolledDown /\ ~isFullyRolledUp
          /\ enablePin = "HIGH" /\ ~motorRunning /\ Idle
  /\ (RollReturned(IR_KEY_UP) /\ FullRun)
       => /\ isFullyRolledUp /\ ~isFullyRolledDown
          /\ enablePin = "HIGH" /\ ~motorRunning /\ Idle

\* CURTAIN_TIME = 5000, normal orientation: a roll-down has run its 5000 ms
C18_Witness ==
  /\ RollReturned(IR_KEY_DOWN) /\ FullRun
  /\ CURTAIN_TIME = 5000 /\ isNormalDirection /\ moveLog.steps > 3000
  /\ isFullyRolledDown /\ ~isFullyRolledUp

\* a roll-up after it, under the reversed orientation, has run its full time
RollUpRanFullTime ==
  /\ RollReturned(IR_KEY_UP) /\ FullRun /\ ~isNormalDirection
  /\ presses > 1 /\ isFullyRolledUp /\ ~isFullyRolledDown

\* a roll that a stop interrupted leaves both hints false
RollInterrupted ==
  /\ RollReturned(IR_KEY_DOWN) /\ moveLog.stopped
  /\ ~isFullyRolledDown /\ ~isFullyRolledUp

\* C19: in every reachable state of skech_smart_roller_blind at most one of
\* isFullyRolledUp and isFullyRolledDown is true
C19_HintsExclusive ==
  sketch = "skech_smart_roller_blind" => ~(isFullyRolledUp /\ isFullyRolledDown)

\* a calibration set isFullyRolledDown, and the full roll-up after it has
\* set isFullyRolledUp and cleared isFullyRolledDown
C19_Witness ==
  /\ RollReturned(IR_KEY_UP) /\ FullRun /\ presses = 3
  /\ EepromGetInt(eeprom, 0) = CURTAIN_TIME /\ CURTAIN_TIME \notin {2000, 5000}
  /\ isFullyRolledUp /\ ~isFullyRolledDown

(***************************************************************************)
(* Properties of the direction setting.                                    *)
(***************************************************************************)
\* the byte saveDirectionSetting writes for orientation b
DirectionByte(b) == IF b THEN 1 ELSE 0

\* the stored orientation, with every byte other than 0 taken as true
StoredDirection == eeprom[4] # 0

\* the step just taken dispatched a direction key in Idle
DirectionDispatched ==
  /\ sketch = "skech_smart_roller_blind"
  /\ Decoded /\ Idle /\ dispatched' /\ seen'.frame.command = IR_KEY_DIRECTION

\* a direction key negates isNormalDirection, stores the new value in byte 4
\* before loop() goes on, and leaves the duration bytes alone
ToggleSaves ==
  [][DirectionDispatched =>
       /\ isNormalDirection' = ~isNormalDirection
       /\ eeprom'[4] = DirectionByte(isNormalDirection')
       /\ \A i \in 0..3 : eeprom'[i] = eeprom[i]
       /\ Idle']_vars

\* two toggles give back the orientation they started from
TwoTogglesRestore ==
  \A n \in BOOLEAN :
    handleDirectionKey(handleDirectionKey(
      [isNormalDirection |-> n, eeprom |-> [i \in 0..4 |-> 255]])).isNormalDirection = n

StoredDirectionAfterToggle ==
  [][(sketch = "skech_smart_roller_blind" /\ eeprom[4] \in {0, 1})
       => eeprom'[4] = DirectionByte(isNormalDirection')]_vars

\* a device with a blank direction byte runs with either orientation
BlankReadAsReversed ==
  sketch = "skech_smart_roller_blind" /\ eeprom[4] = 255 /\ ~isNormalDirection
  /\ presses > 0

BlankReadAsNormal ==
  sketch = "skech_smart_roller_blind" /\ eeprom[4] = 255 /\ isNormalDirection
  /\ presses > 0


\* commands of the configured remote other than the stop
InFlightCommands ==
  {Frame(k, IR_ADDRESS, 1) :
     k \in {IR_KEY_UP, IR_KEY_DOWN, IR_KEY_LEFT, IR_KEY_RIGHT, IR_KEY_SET,
            IR_KEY_DIRECTION}}

\* C21: a roll, nudge, calibration-toggle or direction-toggle frame that
\* reaches the decoder while rotateForTime is stepping is ignored: the move
\* returns to loop() with no further motion started (no more pulses than the
\* duration allows, motorRunning false, nothing dispatched), the mode, the
\* orientation, CURTAIN_TIME and the EEPROM unchanged, and the decoder empty,
\* so that nothing of the frame is left for a later iteration of loop().
C21_MoveIgnoresCommands ==
  [][(/\ sketch = "skech_smart_roller_blind" /\ pc = "rotate"
      /\ moveLog'.arrived \in InFlightCommands)
     => /\ pc' = "loop" /\ ~setMode' /\ ~timingInProgress' /\ ~motorRunning'
        /\ enablePin' = "HIGH"
        /\ isNormalDirection' = isNormalDirection
        /\ CURTAIN_TIME' = CURTAIN_TIME /\ eeprom' = eeprom
        /\ presses' = presses /\ seen' = seen
        /\ moveLog'.steps <= TotalSteps(moveLog'.duration)
        /\ moveLog'.afterStop = -1
        /\ irPending' = None]_vars

\* a calibration-toggle frame arrived after the last poll of a move, was still
\* held by the decoder when the move returned, and is gone in Idle
C21_Witness ==
  /\ sketch = "skech_smart_roller_blind" /\ Idle
  /\ moveLog.steps > 0 /\ moveLog.pending
  /\ moveLog.arrived = Frame(IR_KEY_SET, IR_ADDRESS, 1)
  /\ irPending = None /\ ~setMode

\* a direction-toggle frame arrived early in a full roll and was consumed by
\* a poll of the move, which ran its full time
PolledCommandIgnored ==
  /\ sketch = "skech_smart_roller_blind" /\ Idle
  /\ moveLog.arrived = Frame(IR_KEY_DIRECTION, IR_ADDRESS, 1) /\ ~moveLog.pending
  /\ moveLog.duration = CURTAIN_TIME /\ moveLog.steps = TotalSteps(CURTAIN_TIME)
  /\ isFullyRolledUp


\* a SET frame of the configured remote
SetFrame == Frame(IR_KEY_SET, IR_ADDRESS, 1)

\* in set mode, more than 1000 ms after the last accepted command, the step
\* just taken decoded a SET frame at the top of loop()
SetSeenAtLoopTop ==
  /\ setMode /\ Decoded /\ seen'.frame = SetFrame /\ seen'.age = 2

\* in set mode, more than 1000 ms after the last accepted command, the step
\* just taken ran the stepping branch up to a 500-step poll that found a SET
\* frame in the decoder
SetSeenAtStepPoll ==
  /\ setMode /\ ~Decoded /\ moveLog'.arrived = SetFrame
  /\ sinceLastIR > SET_MODE_DEBOUNCE_TIME

\* the session has ended and the elapsed time is the duration in memory and
\* in the EEPROM
SessionSaved ==
  /\ ~setMode' /\ ~timingInProgress' /\ ~motorRunning'
  /\ CURTAIN_TIME' = timingElapsed /\ Stored(CURTAIN_TIME)'

\* C22: in set mode every SET frame of the configured remote that arrives
\* more than 1000 ms after the last accepted command ends the session and
\* saves the elapsed time as CURTAIN_TIME, whether the decode() at the top of
\* loop() or the 500-step poll of the stepping branch takes it from the
\* decoder
C22_EverySetEndsSession ==
  [][(sketch = "skech_smart_roller_blind"
      /\ (SetSeenAtLoopTop \/ SetSeenAtStepPoll)) => SessionSaved]_vars

\* the half of C22 that the decode() at the top of loop() bears out
SetAtLoopTopEndsSession ==
  [][(sketch = "skech_smart_roller_blind" /\ SetSeenAtLoopTop)
     => SessionSaved]_vars

\* what the 500-step poll does with the SET frame: the frame is taken from
\* the decoder and the session goes on with nothing saved
SetAtStepPollDropped ==
  [][(sketch = "skech_smart_roller_blind" /\ SetSeenAtStepPoll)
     => /\ setMode' /\ timingInProgress' /\ motorRunning' /\ irPending' = None
        /\ UNCHANGED <<CURTAIN_TIME, eeprom>>]_vars

\* a session that a SET frame at the top of loop() has ended and saved
SetAtLoopTopSaved ==
  JustSaved /\ seen.age = 2 /\ CURTAIN_TIME > SET_MODE_DEBOUNCE_TIME

\* a session still running after the 500-step poll has dropped a SET frame
\* that came more than 1000 ms after the SET press that started it
SetDroppedByStepPoll ==
  /\ sketch = "skech_smart_roller_blind" /\ setMode /\ motorRunning
  /\ moveLog.arrived = SetFrame /\ irPending = None
  /\ timingElapsed > SET_MODE_DEBOUNCE_TIME /\ lastIRCommand = IR_KEY_SET


(***************************************************************************)
(* Properties of a stop that cancels a move.                               *)
(***************************************************************************)
\* the timed move that has just returned to loop() was cut short by a valid
\* stop frame that a poll of rotateForTime took from the decoder
CancelledMove ==
  /\ sketch = "skech_smart_roller_blind" /\ pc = "loop"
  /\ moveLog.steps > 0 /\ moveLog.steps < TotalSteps(moveLog.duration)
  /\ moveLog.afterStop >= 0 /\ moveLog.stopped /\ ~moveLog.pending

\* the step just taken decoded, at the top of loop(), a stop frame of the
\* configured remote less than 200 ms after the cancelled move returned
StopRepeatAfterCancel ==
  /\ CancelledMove /\ Decoded /\ RemoteStop(seen'.frame)
  /\ seen'.sinceMove >= 0 /\ seen'.sinceMove < IR_DEBOUNCE_TIME

\* C23: a stop that cancels a move in flight is an accepted stop: it leaves
\* lastIRCommand at the stop code and lastIRTime at the time it was accepted
\* (the time the move returned), and hence a stop frame decoded less than
\* 200 ms after the cancelled move is not dispatched
C23_CancelSetsDebounce ==
  /\ [](CancelledMove => /\ lastIRCommand = IR_KEY_SHUTDOWN
                         /\ sinceLastIR = moveLog.age)
  /\ [][StopRepeatAfterCancel => ~dispatched']_vars

\* what the code does: the stop is taken by the poll of rotateForTime, and
\* loop() then records the command that started the move with the time that
\* command was decoded; a stop frame decoded after a cancelled move is
\* dispatched whatever the time between, and sets stopRequested (or, as
\* the third of a triple press, clears the duration)
CancelKeepsMoveCommand ==
  /\ [](CancelledMove => /\ lastIRCommand = seen.frame.command
                         /\ lastIRCommand \in {IR_KEY_UP, IR_KEY_DOWN,
                                               IR_KEY_LEFT, IR_KEY_RIGHT}
                         /\ sinceLastIR > moveLog.age)
  /\ [][(CancelledMove /\ Decoded /\ RemoteStop(seen'.frame))
        => dispatched' /\ (stopRequested' \/ shutdownCount' = 0)]_vars

\* a stop frame decoded 50 ms after a cancelled full roll has been dispatched
StopRepeatDispatched ==
  /\ StopDispatched /\ seen.sinceMove = LOOP_DELAY /\ stopRequested
  /\ shutdownCount = 1


(***************************************************************************)
(* Properties of the triple stop among other commands.                     *)
(***************************************************************************)
\* the step just taken dispatched a stop press in Idle when the command
\* dispatched before it was not a stop
StopAfterOtherCommand ==
  /\ sketch = "skech_smart_roller_blind" /\ Idle /\ Decoded /\ StopDispatched'
  /\ lastIRCommand \in {IR_KEY_UP, IR_KEY_DOWN, IR_KEY_LEFT, IR_KEY_RIGHT,
                        IR_KEY_SET, IR_KEY_DIRECTION}

\* C24: the triple press clears the duration only on the third of three stop
\* presses in a row: a stop press that follows the dispatch of another
\* command (a direction toggle, a nudge) clears neither CURTAIN_TIME nor the
\* stored duration, however many stop presses came before that command
C24_ClearNeedsConsecutiveStops ==
  [][StopAfterOtherCommand
     => /\ shutdownCount' # 0
        /\ UNCHANGED <<CURTAIN_TIME, eeprom>>]_vars

\* what the code does: only the time between counted stop presses matters;
\* a stop press after two counted ones and any other command clears when it
\* comes less than 2000 ms after the second
ClearIgnoresOtherCommands ==
  [][(StopAfterOtherCommand /\ shutdownCount = 2
      /\ seen'.stopGap < SHUTDOWN_REPEAT_WINDOW)
     => /\ shutdownCount' = 0 /\ CURTAIN_TIME' = DEFAULT_CURTAIN_TIME
        /\ EepromGetInt(eeprom', 0) = 0]_vars

\* a stored duration of 2000 ms cleared by stop, stop, direction, stop
ClearedAfterDirection ==
  /\ JustCleared /\ presses = 4 /\ EepromGetInt(eeprom, 0) = 0
  /\ CURTAIN_TIME = DEFAULT_CURTAIN_TIME


(***************************************************************************)
(* Properties of the position hints across calibration.                    *)
(***************************************************************************)
\* the step just taken ended a calibration session, whose drive turns the
\* motor in the roll-down sense: the session was saved or aborted
SessionEnded ==
  sketch = "skech_smart_roller_blind" /\ setMode /\ ~setMode'

\* C25: a hint becomes true only when a full roll in its direction has run
\* the whole of CURTAIN_TIME without a stop (isFullyRolledDown also when a
\* calibration is saved); a roll in the other direction and a nudge leave it
\* false, and after every drive in the roll-down sense, the calibration drive
\* of a saved or an aborted session included, isFullyRolledUp is false
C25_DownDriveClearsUpHint ==
  /\ [][/\ (~isFullyRolledUp /\ isFullyRolledUp')
             => (RollReturned(IR_KEY_UP) /\ FullRun)'
        /\ (~isFullyRolledDown /\ isFullyRolledDown')
             => ((RollReturned(IR_KEY_DOWN) /\ FullRun) \/ JustSaved)'
        /\ SessionEnded => ~isFullyRolledUp']_vars
  /\ [](/\ RollReturned(IR_KEY_DOWN) => ~isFullyRolledUp
        /\ RollReturned(IR_KEY_UP) => ~isFullyRolledDown
        /\ NudgeReturned => (~isFullyRolledUp /\ ~isFullyRolledDown))

\* the part of C25 that the code bears out: all of it but the aborted session
HintsFollowMoves ==
  /\ [][/\ (~isFullyRolledUp /\ isFullyRolledUp')
             => (RollReturned(IR_KEY_UP) /\ FullRun)'
        /\ (~isFullyRolledDown /\ isFullyRolledDown')
             => ((RollReturned(IR_KEY_DOWN) /\ FullRun) \/ JustSaved)'
        /\ (SessionEnded /\ ~Aborted) => ~isFullyRolledUp']_vars
  /\ [](/\ RollReturned(IR_KEY_DOWN) => ~isFullyRolledUp
        /\ RollReturned(IR_KEY_UP) => ~isFullyRolledDown
        /\ NudgeReturned => (~isFullyRolledUp /\ ~isFullyRolledDown))

\* what the code does with the hints in set mode: entering it, stepping in it
\* and aborting it leave both as they were
AbortKeepsHints ==
  [][(sketch = "skech_smart_roller_blind" /\ (setMode' \/ Aborted))
     => UNCHANGED <<isFullyRolledUp, isFullyRolledDown>>]_vars

\* a full roll-up, then a calibration session that the 500-step poll aborted
\* on a stop: isFullyRolledUp is still true
UpHintAfterAbortedSession ==
  /\ sketch = "skech_smart_roller_blind" /\ Idle
  /\ presses = 2 /\ seen = NoSeen /\ lastIRCommand = IR_KEY_SET
  /\ isFullyRolledUp


(***************************************************************************)
(* Properties of the end of a timed move.                                  *)
(***************************************************************************)
\* presses in one run of the keys that move the motor
MaxMovePresses == 2

\* the roll keys, a nudge key and the stop key
MoveKeyFrames ==
  {Frame(k, IR_ADDRESS, 1) :
     k \in {IR_KEY_UP, IR_KEY_DOWN, IR_KEY_LEFT, IR_KEY_SHUTDOWN}}

\* one press of these keys, at once or 200 ms later
PressMoveKey ==
  /\ sketch = "skech_smart_roller_blind"
  /\ pc = "loop" /\ presses < MaxMovePresses
  /\ \E w \in {0, 4}, f \in MoveKeyFrames :
       Becomes(loopDecode(receive(loopIdle(Start, w), f), f))

\* a step that takes rotateForTime from its while loop back to loop()
MoveReturns == pc = "rotate" /\ pc' = "loop"

\* the while loop of rotateForTime is left to run: its clock advances with
\* each pulse
SpecMoves ==
  Init /\ [][PressMoveKey \/ RotateRun]_vars /\ WF_pc(MoveReturns)

\* the timed move that has just returned to loop()
MoveReturned ==
  sketch = "skech_smart_roller_blind" /\ pc = "loop" /\ moveLog.steps >= 0

\* a poll of that move took a valid stop from the decoder
StopObserved ==
  moveLog.afterStop >= 0 /\ ~moveLog.pending

\* what a move that has returned has done: each of its pulses was emitted
\* less than `duration` ms after its start, none after a poll had taken a
\* valid stop from the decoder (the move returns at that poll); the driver is
\* disabled, and after a full roll the dispatcher is Idle with motorRunning
\* and stopRequested both false
MovesBounded ==
  /\ [][pc = "rotate" => MoveReturned']_vars
  /\ [](MoveReturned
        => /\ moveLog.steps <= TotalSteps(moveLog.duration)
           /\ moveLog.steps > 0
                => ElapsedMs(moveLog.steps - 1) < moveLog.duration
           /\ (StopObserved /\ moveLog.steps > 0)
                => /\ moveLog.stopped
                   /\ moveLog.steps % ROTATE_POLL_STEPS = 0
                   /\ moveLog.afterStop <= ROTATE_POLL_STEPS
           /\ ~moveLog.stopped => moveLog.steps = TotalSteps(moveLog.duration)
           /\ enablePin = "HIGH"
           /\ seen.frame.command \in {IR_KEY_UP, IR_KEY_DOWN}
                => (Idle /\ ~motorRunning /\ ~stopRequested))

\* C26: every move of rotateForTime returns to loop(); each of its pulses
\* was emitted less than `duration` ms after its start, none after a poll
\* had taken a valid stop from the decoder (the move returns at that poll),
\* and none at all when stopRequested was set on entry; the driver is
\* disabled on return, and after a full roll the dispatcher is Idle with
\* motorRunning and stopRequested both false
C26_MoveTerminates ==
  /\ (pc = "rotate") ~> (pc = "loop")
  /\ MovesBounded

\* a full roll of 5000 ms has returned after its 3002 pulses, the last of
\* them emitted 4999 ms after the start
C26_Witness ==
  /\ MoveReturned /\ seen.frame.command = IR_KEY_UP
  /\ moveLog.duration = DEFAULT_CURTAIN_TIME /\ moveLog.steps = 3002
  /\ ElapsedMs(moveLog.steps - 1) = 4999
  /\ Idle /\ ~motorRunning /\ ~stopRequested

\* a roll has returned at the second poll, which took a stop from the decoder
RollStoppedAtPoll ==
  /\ MoveReturned /\ seen.frame.command = IR_KEY_DOWN /\ StopObserved
  /\ moveLog.steps = 2 * ROTATE_POLL_STEPS /\ ~stopRequested


(***************************************************************************)
(* Properties of the speed ramp of smoothRotate (sketch_sep7a).            *)
(***************************************************************************)
\* smoothRotate is about to run step rStepCount of its rDuration steps
AtSmoothStep ==
  sketch = "sketch_sep7a" /\ pc = "smooth" /\ rStepCount < rDuration

\* the ramp as far as the code bears it out: the first quarter of the steps
\* rises linearly from minSpeed, the middle steps run at maxSpeed, the last
\* quarter falls, and every speed lies in minSpeed..maxSpeed, so that the
\* step delay divides by no zero (with fewer than 4 steps all run at maxSpeed)
SpeedRamp ==
  AtSmoothStep =>
    LET i == rStepCount
        N == rDuration
        quarter == N \div 4
        v == currentSpeed(i, N)
    IN  /\ v >= minSpeed /\ v <= maxSpeed
        /\ 1000000 \div v >= 2500 /\ 1000000 \div v <= 10000
        /\ i < quarter => /\ v = minSpeed + ((maxSpeed - minSpeed) * i) \div quarter
                          /\ i = 0 => v = minSpeed
                          /\ i > 0 => v >= currentSpeed(i - 1, N)
        /\ (i >= quarter /\ i < N - quarter) => v = maxSpeed
        /\ (i >= N - quarter /\ i < quarter) => FALSE
        /\ i >= N - quarter => v <= currentSpeed(i - 1, N)

\* C27 as stated: in smoothRotate with N steps, minSpeed 100 and maxSpeed
\* 400, the first N/4 steps rise linearly from minSpeed, the middle steps run
\* at maxSpeed, the last N/4 steps fall, every speed lies in
\* minSpeed..maxSpeed (also when N < 4), and the fall mirrors the rise: step
\* N-1-i runs at the speed of step i for every i < N/4, the last step at
\* minSpeed
C27_AsStated ==
  /\ SpeedRamp
  /\ AtSmoothStep =>
       LET i == rStepCount
           N == rDuration
       IN  /\ i < N \div 4 => currentSpeed(N - 1 - i, N) = currentSpeed(i, N)
           /\ (i = N - 1 /\ N \div 4 > 0) => currentSpeed(i, N) = minSpeed

\* what the code does: the fall uses N - i where the rise uses i, so step
\* N-1-i runs at the speed step i+1 of the rise would have, the first step
\* of the fall at maxSpeed and the last above minSpeed by
\* (maxSpeed - minSpeed) / (N/4)
RampShifted ==
  AtSmoothStep =>
    LET i == rStepCount
        N == rDuration
        quarter == N \div 4
    IN  /\ i < quarter
             => currentSpeed(N - 1 - i, N)
                  = minSpeed + ((maxSpeed - minSpeed) * (i + 1)) \div quarter
        /\ (i = N - 1 /\ quarter > 0)
             => currentSpeed(i, N)
                  = minSpeed + (maxSpeed - minSpeed) \div quarter

\* C27, amended: the first N/4 steps rise linearly from minSpeed, the middle
\* steps run at maxSpeed, the last N/4 steps fall, every speed lies in
\* minSpeed..maxSpeed (also when N < 4), and the fall is the rise shifted by
\* one step: step N-1-i runs at minSpeed + (maxSpeed - minSpeed) * (i + 1) /
\* (N/4), so the fall starts at maxSpeed and the last step runs at
\* minSpeed + (maxSpeed - minSpeed) / (N/4)
C27_RampShifted == SpeedRamp /\ RampShifted

\* the last step of the 45-degree nudge is about to run at 103 steps/s
C27_Witness ==
  /\ AtSmoothStep /\ rDuration = (45 * TOTAL_STEPS) \div 360
  /\ rStepCount = rDuration - 1 /\ currentSpeed(rStepCount, rDuration) = 103

\* the last of 4 steps is about to run at maxSpeed
LastOfFourAtMax ==
  /\ AtSmoothStep /\ rDuration = 4 /\ rStepCount = 3
  /\ currentSpeed(3, 4) = maxSpeed


(***************************************************************************)
(* Properties of the mode flags.                                           *)
(***************************************************************************)
\* C28: between iterations of loop() setMode, timingInProgress and
\* motorRunning are equal; so motorRunning is false whenever the normal-mode
\* dispatch of loop() handles a decoded frame, and its branch for a stop
\* while the motor runs, which skips the debounce test, is never taken: a
\* stop frame decoded there is dispatched only if the debounce test accepts it
C28_ModeFlagsAgree ==
  /\ [](sketch = "skech_smart_roller_blind" /\ pc = "loop"
        => (setMode = timingInProgress /\ timingInProgress = motorRunning))
  /\ [][(sketch = "skech_smart_roller_blind" /\ Decoded /\ ~setMode)
        => /\ ~motorRunning
           /\ (seen'.frame.command = IR_KEY_SHUTDOWN /\ dispatched')
                => (seen'.differs \/ seen'.age >= 1)]_vars

\* a stop frame decoded in normal mode less than 200 ms after a dispatched
\* stop was held back by the debounce test, with the three flags false
C28_Witness ==
  /\ sketch = "skech_smart_roller_blind" /\ pc = "loop"
  /\ RemoteStop(seen.frame) /\ ~seen.setMode /\ ~dispatched
  /\ ~seen.differs /\ seen.age = 0
  /\ ~setMode /\ ~timingInProgress /\ ~motorRunning

\* a session is running with the three flags true
FlagsTrueInSession ==
  /\ sketch = "skech_smart_roller_blind" /\ pc = "loop"
  /\ setMode /\ timingInProgress /\ motorRunning /\ calRuns > 0


(***************************************************************************)
(* Properties of frames from another remote.                               *)
(***************************************************************************)
\* a frame whose address is not the configured one
Foreign(f) == ~f.none /\ f.address # IR_ADDRESS

\* the motor and dispatcher state that a frame may change
Dispatcher ==
  <<setMode, timingInProgress, motorRunning, stopRequested, isNormalDirection,
    CURTAIN_TIME, eeprom, isFullyRolledUp, isFullyRolledDown, lastIRCommand,
    shutdownCount>>

\* C29: in skech_smart_roller_blind a decoded frame whose address is not
\* IR_ADDRESS changes nothing in any mode: decoded at the top of loop() it
\* starts nothing and leaves mode, orientation, CURTAIN_TIME, the EEPROM, the
\* hints and the debounce state as they were; seen by a poll of a timed move
\* it neither cancels nor shortens the move; seen by the 500-step poll of
\* set mode it does not abort the session
C29_ForeignFramesIgnored ==
  [][sketch = "skech_smart_roller_blind" =>
       /\ (Decoded /\ Foreign(seen'.frame))
            => /\ UNCHANGED Dispatcher /\ pc' = "loop" /\ ~dispatched'
       /\ (pc = "rotate" /\ Foreign(moveLog'.arrived))
            => /\ moveLog'.steps = TotalSteps(moveLog'.duration)
               /\ ~moveLog'.stopped
               /\ UNCHANGED <<setMode, isNormalDirection, CURTAIN_TIME, eeprom>>
       /\ (setMode /\ ~Decoded /\ Foreign(moveLog'.arrived))
            => UNCHANGED Dispatcher]_vars

\* the part of C29 that the filter at the top of loop() bears out
ForeignIgnoredAtLoopTop ==
  [][(sketch = "skech_smart_roller_blind" /\ Decoded /\ Foreign(seen'.frame))
     => /\ UNCHANGED Dispatcher /\ pc' = "loop" /\ ~dispatched'
        /\ (setMode \/ sinceLastIR' >= sinceLastIR)]_vars

\* what the polls do with the stop code of another remote: the poll of a
\* timed move ends the move, the 500-step poll aborts the session
ForeignStopObeyed ==
  [][(sketch = "skech_smart_roller_blind"
      /\ moveLog'.arrived = Frame(IR_KEY_SHUTDOWN, 1, 1))
     => /\ (pc = "rotate" /\ ~moveLog'.pending /\ moveLog'.steps > 0)
             => /\ moveLog'.stopped
                /\ moveLog'.steps % ROTATE_POLL_STEPS = 0
                /\ moveLog'.afterStop <= ROTATE_POLL_STEPS
        /\ (setMode /\ ~Decoded) => (~setMode' /\ ~motorRunning')]_vars

\* a full roll cut short at its second poll by the stop code of another
\* remote
RollCancelledByForeignStop ==
  /\ RollReturned(IR_KEY_UP) /\ moveLog.arrived = Frame(IR_KEY_SHUTDOWN, 1, 1)
  /\ moveLog.steps = 2 * ROTATE_POLL_STEPS /\ ~isFullyRolledUp

\* a session aborted at the 500-step poll by the stop code of another remote
SessionAbortedByForeignStop ==
  /\ sketch = "skech_smart_roller_blind" /\ Idle
  /\ moveLog.arrived = Frame(IR_KEY_SHUTDOWN, 1, 1) /\ moveLog.steps = -1
  /\ lastIRCommand = IR_KEY_SET /\ seen = NoSeen


(***************************************************************************)
(* Properties of a roll command at the end stop.                           *)
(***************************************************************************)
\* the step just taken dispatched roll key k in Idle
RollDispatched(k) ==
  /\ sketch = "skech_smart_roller_blind" /\ Idle /\ Decoded
  /\ dispatched' /\ seen'.frame.command = k

\* the roll was refused: no pulse, the driver never enabled, nothing changed
\* but lastIRCommand and lastIRTime
RollRefused(k) ==
  /\ pc' = "loop" /\ moveLog' = NoLog /\ enablePin' = "HIGH"
  /\ UNCHANGED <<isFullyRolledUp, isFullyRolledDown, isNormalDirection,
                 CURTAIN_TIME, eeprom, setMode, timingInProgress, motorRunning,
                 stopRequested, shutdownCount, dirPin>>
  /\ lastIRCommand' = k /\ sinceLastIR' = LOOP_DELAY

\* the roll was started: rotateForTime is at its while loop for CURTAIN_TIME
RollStarted(k) ==
  /\ pc' = "rotate" /\ caller' = k /\ rDuration' = CURTAIN_TIME
  /\ enablePin' = "LOW" /\ motorRunning'
  /\ ~isFullyRolledUp' /\ ~isFullyRolledDown'

\* C30: a roll-up dispatched in Idle while isFullyRolledUp is true, and a
\* roll-down while isFullyRolledDown is true, emits no pulse, leaves
\* ENABLE_PIN HIGH and changes nothing but the debounce state; a roll
\* dispatched in Idle starts a move exactly when the hint of its own
\* direction is false
C30_RollAtEndStopRefused ==
  [][/\ RollDispatched(IR_KEY_UP)
          => IF isFullyRolledUp THEN RollRefused(IR_KEY_UP)
             ELSE RollStarted(IR_KEY_UP)
     /\ RollDispatched(IR_KEY_DOWN)
          => IF isFullyRolledDown THEN RollRefused(IR_KEY_DOWN)
             ELSE RollStarted(IR_KEY_DOWN)]_vars

\* after a full roll-up a second roll-up press, past the debounce window, was
\* dispatched and refused
C30_Witness ==
  /\ sketch = "skech_smart_roller_blind" /\ Idle
  /\ dispatched /\ seen.frame.command = IR_KEY_UP /\ ~seen.differs /\ seen.age = 1
  /\ isFullyRolledUp /\ moveLog = NoLog /\ enablePin = "HIGH"
  /\ lastIRCommand = IR_KEY_UP

\* after a calibration, which sets isFullyRolledDown, a roll-down press was
\* refused
RollDownRefused ==
  /\ sketch = "skech_smart_roller_blind" /\ Idle
  /\ dispatched /\ seen.frame.command = IR_KEY_DOWN
  /\ isFullyRolledDown /\ moveLog = NoLog /\ enablePin = "HIGH"

\* a roll-up was started while isFullyRolledDown was true
RollUpFromDown ==
  /\ sketch = "skech_smart_roller_blind" /\ pc = "rotate" /\ caller = IR_KEY_UP
  /\ EepromGetInt(eeprom, 0) = CURTAIN_TIME /\ rDuration = CURTAIN_TIME
  /\ CURTAIN_TIME \notin {2000, DEFAULT_CURTAIN_TIME}


(***************************************************************************)
(* Properties of the position hints across direction toggles.              *)
(***************************************************************************)
\* DIR_PIN, which holds the direction of the most recent motion, is at the
\* level that roll-up (roll-down) has under the orientation as it is now
LastMotionWasRollUp == dirPin = Level(rollUpDirection(isNormalDirection))
LastMotionWasRollDown == dirPin = Level(layDownDirection(isNormalDirection))

\* C31: whenever isFullyRolledUp is true the most recent motion of the motor
\* was in the direction the orientation flag now maps to roll-up, and
\* whenever isFullyRolledDown is true in the direction it now maps to
\* roll-down, after any sequence of commands, direction toggles included
C31_HintsMatchOrientation ==
  sketch = "skech_smart_roller_blind" =>
    /\ isFullyRolledUp => LastMotionWasRollUp
    /\ isFullyRolledDown => LastMotionWasRollDown

\* what the code bears out: a hint that becomes true matches the orientation
\* of that moment, and a hint that is true was set by a motion that took place
\* (DIR_PIN is written only where the motor then steps, or where the hints
\* are cleared)
HintsMatchWhenSet ==
  [][sketch = "skech_smart_roller_blind" =>
       /\ (~isFullyRolledUp /\ isFullyRolledUp') => LastMotionWasRollUp'
       /\ (~isFullyRolledDown /\ isFullyRolledDown') => LastMotionWasRollDown'
       /\ (dirPin' # dirPin /\ (isFullyRolledUp' \/ isFullyRolledDown'))
            => (moveLog'.steps > 0 \/ setMode \/ setMode')]_vars

\* what handleDirectionKey does: the orientation flips while the hints and
\* DIR_PIN stay as they were
ToggleKeepsHints ==
  [][DirectionDispatched
     => /\ isNormalDirection' # isNormalDirection
        /\ UNCHANGED <<isFullyRolledUp, isFullyRolledDown, dirPin>>]_vars

\* a full roll-up, then a direction toggle: isFullyRolledUp is true and the
\* last motion was in the direction that is now roll-down
UpHintAfterToggle ==
  /\ sketch = "skech_smart_roller_blind" /\ Idle /\ presses = 2
  /\ dispatched /\ seen.frame.command = IR_KEY_DIRECTION
  /\ isFullyRolledUp /\ LastMotionWasRollDown
====
